---- MODULE Spec2Model ----
(***************************************************************************)
(* Model of the ratitude host pipeline: the broadcast hub (pkg/engine),    *)
(* the TCP source supervisor and framer (pkg/transport), the frame to      *)
(* record transformer (cmd/rttd consumeFrames) and the JSONL sink          *)
(* (pkg/logger).                                                           *)
(***************************************************************************)
EXTENDS Integers, Sequences, FiniteSets, TLC

\* ------------------------------------------------------------------ bounds
MaxPublish == 3
NumSubs == 2
MaxUnsub == 2
BroadcastCap == 1
ClientBuf == 2
MaxBufArg == 2
MaxReconnect == 1
MaxReconnectMax == 3
MaxAttempt == 3
MaxDials == 2
MaxBytes == 2
MaxByte == 1
OutCap == 1
MaxFrames == 2
MaxFrameLen == 4
MaxCode == 3
MaxFields == 2
NumConns == 1
SendBuf == 2
MaxWsPackets == 2
MaxImages == 1
MaxBridgePackets == 1
MaxBody == 2

\* ------------------------------------------------------------- state
VARIABLES
  cancelled,      \* ctx.Done() has fired
  hubPc,          \* Hub.Run: "run" while in the select loop, "done" after return,
                  \* "dead" once a panic has ended the process
  broadcast,      \* h.broadcast buffered channel contents
  clients,        \* h.clients
  chCap,          \* capacity of each subscriber channel
  chQueue,        \* contents of each subscriber channel
  chCloses,       \* number of close(ch) executed on each channel
  subState,       \* SubscribeWithBuffer call per channel: "none", "registering", "subscribed"
  unregPending,   \* Unsubscribe calls blocked in h.unregister <- ch, per channel
  unsubCalls,     \* Unsubscribe calls made so far
  unregSeen,      \* history: Unsubscribe requests the hub has taken, per channel
  pubPc,          \* publisher: "idle" or "publish" (inside Hub.Publish)
  pubNext,        \* id of the next packet the publisher passes to Publish
  published,      \* history: packets accepted by h.broadcast, in order
  received,       \* history: packets each subscriber has read from its channel
  offerLog,       \* history: per channel, the packets the hub offered and whether the queue had room
  hubPkt,         \* Hub.Run: the packet of the broadcast case in hand, <<>> in the select
  hubTodo,        \* Hub.Run: the clients the range loop of the broadcast case has still to visit
  \* --- transport.Listener
  reconnect,      \* l.reconnect, a time.Duration (int64 nanoseconds)
  reconnectMax,   \* l.reconnectMax, a time.Duration
  readTimeout,    \* l.readTimeout, 0 when no read deadline is configured
  lPc,            \* position of Listener.run / handleConn / sleepBackoff
  attempt,        \* run: attempt
  wait,           \* sleepBackoff: wait
  connOpen,       \* connections dialed and not yet closed
  framers,        \* handleConn invocations that have not returned
  rbuf,           \* bufio.Reader: bytes read from the connection, not yet returned by ReadBytes
  payload,        \* handleConn: payload being offered to l.out
  out,            \* l.out, the frame queue
  reachable,      \* environment: the source accepts connections
  peerOpen,       \* environment: the peer has not closed the current connection
  wire,           \* environment: bytes sent by the peer, not yet read from the socket
  sent,           \* environment: bytes sent so far, over all sessions
  sessBytes,      \* history: bytes the peer sent in the current session
  emitted,        \* history: frames accepted by l.out in the current session
  dials,          \* history: successful dials
  framerStarts,   \* history: handleConn invocations
  failStreak,     \* history: dial failures since the last successful dial
  backoffAfter,   \* history: what the current backoff follows: "dial" failure or "conn" end
  prevWait,       \* history: wait slept after the previous dial failure of this streak, 0 if none
  slept,          \* history: the backoff before this dial ran to its timer
  lastRead,       \* history: outcome of the last ReadBytes of this connection:
                  \* "none", "frame", "timeout" or "error"
  handled,        \* history: the error last passed to l.handleError since the last
                  \* successful dial: "none", "dial" or "read"
  \* --- cmd/rttd consumeFrames, protocol registry, logger.JSONLWriter
  textID,         \* protocol.TextPacketID
  dynamicRegistry,\* protocol.dynamicRegistry: id -> DynamicPacketDef
  cfPc,           \* consumeFrames: "select", "publish" (inside hub.Publish), "done" or "panic"
  cfPacket,       \* consumeFrames: the RatPacket being published
  sinkPc,         \* JSONLWriter.Consume: "run", "encode", "done", or "dead" with the process
  written,        \* lines the JSONL encoder has written
  encErr,         \* the encoder's latched write error (json.Encoder.err)
  sinkLog,        \* per consumed record, what Encode did with it
  sinkPkt,        \* the packet Consume has received and not yet encoded
  fed,            \* environment: frames put on the frame queue so far
  consumed,       \* history: the frames consumeFrames has taken from the queue, in order
  \* --- pkg/protocol and firmware functions called on their own
  fnPc,           \* "off", "call" (arguments chosen) or "done" (the function has returned)
  fnIn,           \* the arguments of the call
  fnOut,          \* what the call returned
  muWriter,       \* dynamicRegistryMu: TRUE while Lock is held
  muReaders,      \* dynamicRegistryMu: the number of RLock holders
  wPc,            \* the registering goroutine's position
  wArg,           \* its call: [op, id, def] with def already normalised
  rPc,            \* the looking-up goroutine's position
  rId,            \* the id it looks up
  rRet,           \* what its map read returned: [ok, def]
  current,        \* history: per id, the entry the last completed store left
  during,         \* history: the entries rId has had since the lookup began
  wsPc,           \* per connection: handleWS's position
  wlPc,           \* per connection: writeLoop "off", "run", "write", "close", "closed", "done"
  wlMsg,          \* per connection: the message writeLoop has taken and not yet written
  wsWire,         \* per connection: the messages written to the connection, in order
  wsSend,         \* per connection: client.send
  wsSendOpen,     \* per connection: client.send and the connection are not closed
  wsOnce,         \* per connection: client.once has run
  wsCloses,       \* history: per connection, the number of close(c.send) executed
  wsSubs,         \* per connection: client.subs, subscription id -> channel id
  wsClients,      \* Server.clients
  bcPc,           \* broadcastLoop: "run" or "done"
  bcTodo,         \* publishJSONToChannel: the clients of its snapshot still to be served
  bcChan,         \* publishJSONToChannel: channelID
  bcOut,          \* broadcastPacket: the channels it has still to publish the packet to
  bcCount,        \* packets broadcastLoop has taken from the hub
  bcDropped,      \* history: the clients for which the current publish found the queue full
  bcClient,       \* publishJSONToChannel: the client c of the loop over the snapshot, 0 between clients
  bcIds,          \* publishJSONToChannel: the rest of subIDs of that client
  bcPayload,      \* publishJSONToChannel: payload
  imageEnabled,   \* Server.imageEnabled
  imPc,           \* imageLoop: "off" when it was not started, "run" or "done"
  imTodo,         \* imageLoop's publishJSONToChannel: the clients still to be served
  imClient,       \* imageLoop's publishJSONToChannel: the client c of the loop, 0 between clients
  imIds,          \* imageLoop's publishJSONToChannel: the rest of subIDs of that client
  imCount,        \* publishImage calls so far
  rlOps,          \* per connection: the addSub and removeSub calls readLoop has still to
                  \* make for the message in hand
  rlMsg,          \* history: per connection, the message in hand and the subscriptions
                  \* before it, while calls are left
  runPc,          \* Server.Run: "serving", "shutdown", "returned" or "failed"
  wsCrashed,      \* the process has panicked
  ring,           \* firmware up-buffer: [buf, size, wr, rd]
  emPc,           \* rat_emit: "idle", "write", "finish", "publish"
  emIn,           \* the packet rat_emit was called with
  emState,        \* RatCobsState of the running rat_emit
  emTodo,         \* data bytes rat_emit has still to encode
  emRet,          \* what each rat_emit call returned, in order
  emDone,         \* history: the packets whose rat_emit returned non-zero
  hostWr,         \* the write index the host read last, -1 when it holds none
  hostSeen        \* history: the bytes the host has read from the ring, in order

hubVars == <<hubPc, broadcast, clients, chCap, chQueue, chCloses, subState,
             unregPending, unsubCalls, unregSeen, pubPc, pubNext, published, received, offerLog,
             hubPkt, hubTodo>>

lisVars == <<reconnect, reconnectMax, readTimeout, lPc, attempt, wait, connOpen, framers,
             rbuf, payload, out, reachable, peerOpen, wire, sent, sessBytes, emitted,
             dials, framerStarts, failStreak, backoffAfter, prevWait, slept, lastRead, handled>>

pipeVars == <<textID, dynamicRegistry, cfPc, cfPacket, sinkPc, written, encErr, sinkLog, sinkPkt,
             fed, consumed>>

protoVars == <<fnPc, fnIn, fnOut>>
raceVars == <<muWriter, muReaders, wPc, wArg, rPc, rId, rRet, current, during>>

bridgeVars == <<wsPc, wlPc, wlMsg, wsWire, wsSend, wsSendOpen, wsOnce, wsCloses, wsSubs, wsClients,
               bcPc, bcTodo, bcChan, bcOut, bcCount, bcDropped, runPc, wsCrashed,
               bcClient, bcIds, bcPayload, imageEnabled, imPc, imTodo, imClient, imIds,
               imCount, rlOps, rlMsg>>

fwVars == <<ring, emPc, emIn, emState, emTodo, emRet, emDone, hostWr, hostSeen>>

vars == <<cancelled, hubVars, lisVars, pipeVars, protoVars, raceVars, bridgeVars, fwVars>>

\* ------------------------------------------------------------- helpers
Chans == 1..NumSubs
ForeignChan == NumSubs + 1
AllChans == 1..(NumSubs + 1)
BufArgs == (-1)..MaxBufArg
ByteVals == 0..MaxByte

Min(a, b) == IF a < b THEN a ELSE b

Max(a, b) == IF a > b THEN a ELSE b


\* s is a subsequence of t (order kept, no element used twice)
RECURSIVE IsSubseq(_, _)
IsSubseq(s, t) ==
  IF s = <<>> THEN TRUE
  ELSE IF t = <<>> THEN FALSE
  ELSE IF Head(s) = Head(t) THEN IsSubseq(Tail(s), Tail(t))
  ELSE IsSubseq(s, Tail(t))

\* ------------------------------------------------------------- hub
\* hub.go:66-69  select { case ch <- packet: default: }
TrySendDropsEarly(q, cap, packet) == IF Len(q) + 1 < cap THEN Append(q, packet) ELSE q
TrySendPrepends(q, cap, packet) == IF Len(q) < cap THEN <<packet>> \o q ELSE q
TrySend(q, cap, packet) == IF Len(q) < cap THEN Append(q, packet) ELSE q

\* hub.go:79-83  size <= 0 falls back to h.clientBuf
BufferSize(size) == IF size <= 0 THEN ClientBuf ELSE size

\* hub.go:92-94  h.broadcast <- packet : blocks while the buffer is full
Publish(packet) ==
  /\ Len(broadcast) < BroadcastCap
  /\ broadcast' = Append(broadcast, packet)
  /\ published' = Append(published, packet)

HubInit ==
  /\ hubPc = "run"
  /\ broadcast = <<>>
  /\ clients = {}
  /\ chCap = [c \in AllChans |-> IF c = ForeignChan THEN 1 ELSE 0]
  /\ chQueue = [c \in AllChans |-> <<>>]
  /\ chCloses = [c \in AllChans |-> 0]
  /\ subState = [c \in AllChans |-> "none"]
  /\ unregPending = [c \in AllChans |-> 0]
  /\ unsubCalls = 0
  /\ unregSeen = [c \in AllChans |-> 0]
  /\ pubPc = "idle"
  /\ pubNext = 1
  /\ published = <<>>
  /\ received = [c \in AllChans |-> <<>>]
  /\ offerLog = [c \in AllChans |-> <<>>]
  /\ hubPkt = <<>>
  /\ hubTodo = {}

\* the hub is absent (programs that only run the listener)
HubOff ==
  /\ hubPc = "off"
  /\ broadcast = <<>>
  /\ clients = {}
  /\ chCap = [c \in AllChans |-> 0]
  /\ chQueue = [c \in AllChans |-> <<>>]
  /\ chCloses = [c \in AllChans |-> 0]
  /\ subState = [c \in AllChans |-> "none"]
  /\ unregPending = [c \in AllChans |-> 0]
  /\ unsubCalls = 0
  /\ unregSeen = [c \in AllChans |-> 0]
  /\ pubPc = "off"
  /\ pubNext = 1
  /\ published = <<>>
  /\ received = [c \in AllChans |-> <<>>]
  /\ offerLog = [c \in AllChans |-> <<>>]
  /\ hubPkt = <<>>
  /\ hubTodo = {}

\* the root cancellation signal fires
Cancel ==
  /\ ~cancelled
  /\ cancelled' = TRUE
  /\ UNCHANGED <<hubVars, lisVars, pipeVars, protoVars, raceVars, bridgeVars, fwVars>>

\* hub.go:52-56  case <-ctx.Done(): close every client channel and return
HubCancel ==
  /\ hubPc = "run" /\ hubTodo = {}
  /\ cancelled
  /\ chCloses' = [c \in AllChans |-> IF c \in clients THEN chCloses[c] + 1 ELSE chCloses[c]]
  /\ hubPc' = "done"
  /\ UNCHANGED <<hubPkt, hubTodo, cancelled, broadcast, clients, chCap, chQueue, subState, unregPending,
                 unsubCalls, unregSeen, pubPc, pubNext, published, received, offerLog, lisVars, pipeVars, protoVars, raceVars, bridgeVars, fwVars>>

\* hub.go:79-84  SubscribeWithBuffer up to the blocking send on h.register
SubscribeCall(c, size) ==
  /\ c \in Chans
  /\ subState[c] = "none"
  /\ \A d \in Chans : d < c => subState[d] # "none"
  /\ chCap' = [chCap EXCEPT ![c] = BufferSize(size)]
  /\ subState' = [subState EXCEPT ![c] = "registering"]
  /\ UNCHANGED <<hubPkt, hubTodo, cancelled, hubPc, broadcast, clients, chQueue, chCloses, unregPending,
                 unsubCalls, unregSeen, pubPc, pubNext, published, received, offerLog, lisVars, pipeVars, protoVars, raceVars, bridgeVars, fwVars>>

\* a hub that lets Subscribe return without entering the channel in its client set
HubRegisterNotEntered(c) ==
  /\ hubPc = "run" /\ hubTodo = {}
  /\ subState[c] = "registering"
  /\ subState' = [subState EXCEPT ![c] = "subscribed"]
  /\ UNCHANGED <<hubPkt, hubTodo, cancelled, hubPc, broadcast, clients, chCap, chQueue, chCloses, unregPending,
                 unsubCalls, unregSeen, pubPc, pubNext, published, received, offerLog, lisVars, pipeVars, protoVars, raceVars, bridgeVars, fwVars>>

\* hub.go:57-58  case ch := <-h.register, rendezvous with hub.go:84-85
HubRegister(c) ==
  /\ hubPc = "run" /\ hubTodo = {}
  /\ subState[c] = "registering"
  /\ clients' = clients \cup {c}
  /\ subState' = [subState EXCEPT ![c] = "subscribed"]
  /\ UNCHANGED <<hubPkt, hubTodo, cancelled, hubPc, broadcast, chCap, chQueue, chCloses, unregPending,
                 unsubCalls, unregSeen, pubPc, pubNext, published, received, offerLog, lisVars, pipeVars, protoVars, raceVars, bridgeVars, fwVars>>

\* hub.go:88-90  Unsubscribe(ch) up to the blocking send on h.unregister;
\* ch is a channel Subscribe returned earlier, or a channel the hub never saw
UnsubscribeCall(c) ==
  /\ unsubCalls < MaxUnsub
  /\ \/ subState[c] = "subscribed"
     \/ c = ForeignChan
  /\ unregPending' = [unregPending EXCEPT ![c] = @ + 1]
  /\ unsubCalls' = unsubCalls + 1
  /\ UNCHANGED <<hubPkt, hubTodo, cancelled, hubPc, broadcast, clients, chCap, chQueue, chCloses, subState,
                 unregSeen, pubPc, pubNext, published, received, offerLog, lisVars, pipeVars, protoVars, raceVars, bridgeVars, fwVars>>

HubUnregisterUnchecked(c) ==
  /\ hubPc = "run" /\ hubTodo = {}
  /\ unregPending[c] > 0
  /\ unregPending' = [unregPending EXCEPT ![c] = @ - 1]
  /\ unregSeen' = [unregSeen EXCEPT ![c] = @ + 1]
  /\ clients' = clients \ {c}
  /\ chCloses' = [chCloses EXCEPT ![c] = @ + 1]
  /\ UNCHANGED <<hubPkt, hubTodo, cancelled, hubPc, broadcast, chCap, chQueue, subState,
                 unsubCalls, pubPc, pubNext, published, received, offerLog, lisVars, pipeVars, protoVars, raceVars, bridgeVars, fwVars>>

\* hub.go:59-63  case ch := <-h.unregister: delete and close only a known channel
HubUnregister(c) ==
  /\ hubPc = "run" /\ hubTodo = {}
  /\ unregPending[c] > 0
  /\ unregPending' = [unregPending EXCEPT ![c] = @ - 1]
  /\ unregSeen' = [unregSeen EXCEPT ![c] = @ + 1]
  /\ IF c \in clients
       THEN /\ clients' = clients \ {c}
            /\ chCloses' = [chCloses EXCEPT ![c] = @ + 1]
       ELSE UNCHANGED <<clients, chCloses>>
  /\ UNCHANGED <<hubPkt, hubTodo, cancelled, hubPc, broadcast, chCap, chQueue, subState,
                 unsubCalls, pubPc, pubNext, published, received, offerLog, lisVars, pipeVars, protoVars, raceVars, bridgeVars, fwVars>>

\* a hub that takes the next packet only once every client has room for it
HubBroadcastWaits ==
  /\ hubPc = "run" /\ hubTodo = {}
  /\ broadcast # <<>>
  /\ \A c \in clients : Len(chQueue[c]) < chCap[c]
  /\ broadcast' = Tail(broadcast)
  /\ hubPkt' = IF clients = {} THEN <<>> ELSE <<Head(broadcast)>>
  /\ hubTodo' = clients
  /\ UNCHANGED <<cancelled, hubPc, clients, chCap, chQueue, chCloses, subState, unregPending,
                 unsubCalls, unregSeen, pubPc, pubNext, published, received, offerLog, lisVars, pipeVars, protoVars, raceVars, bridgeVars, fwVars>>

\* hub.go:64-65  case packet := <-h.broadcast: the receive; the range loop over
\* h.clients begins
HubBroadcast ==
  /\ hubPc = "run" /\ hubTodo = {}
  /\ broadcast # <<>>
  /\ broadcast' = Tail(broadcast)
  /\ hubPkt' = IF clients = {} THEN <<>> ELSE <<Head(broadcast)>>
  /\ hubTodo' = clients
  /\ UNCHANGED <<cancelled, hubPc, clients, chCap, chQueue, chCloses, subState, unregPending,
                 unsubCalls, unregSeen, pubPc, pubNext, published, received, offerLog, lisVars, pipeVars, protoVars, raceVars, bridgeVars, fwVars>>

\* hub.go:65-70  one pass of the range loop, in the map's order: the select with a
\* default case offers the packet to one client and never waits; after the last client
\* the hub is back in its select
HubOffer(c) ==
  /\ hubPc = "run" /\ c \in hubTodo
  /\ chQueue' = [chQueue EXCEPT ![c] = TrySend(@, chCap[c], hubPkt[1])]
  /\ offerLog' = [offerLog EXCEPT
                    ![c] = Append(@, [item |-> hubPkt[1], room |-> Len(chQueue[c]) < chCap[c]])]
  /\ hubTodo' = hubTodo \ {c}
  /\ hubPkt' = IF hubTodo = {c} THEN <<>> ELSE hubPkt
  /\ UNCHANGED <<cancelled, hubPc, broadcast, clients, chCap, chCloses, subState, unregPending,
                 unsubCalls, unregSeen, pubPc, pubNext, published, received, lisVars, pipeVars, protoVars, raceVars, bridgeVars, fwVars>>

\* a caller enters Hub.Publish with the next packet (RatPacket{ID: i})
PublishCall ==
  /\ pubPc = "idle"
  /\ pubNext <= MaxPublish
  /\ pubPc' = "publish"
  /\ UNCHANGED <<hubPkt, hubTodo, cancelled, hubPc, broadcast, clients, chCap, chQueue, chCloses, subState,
                 unregPending, unsubCalls, unregSeen, pubNext, published, received, offerLog, lisVars, pipeVars, protoVars, raceVars, bridgeVars, fwVars>>

\* hub.go:93  the send completes and Publish returns
PublishReturn ==
  /\ pubPc = "publish"
  /\ Publish(pubNext)
  /\ pubNext' = pubNext + 1
  /\ pubPc' = "idle"
  /\ UNCHANGED <<hubPkt, hubTodo, cancelled, hubPc, clients, chCap, chQueue, chCloses, subState,
                 unregPending, unsubCalls, unregSeen, received, offerLog, lisVars, pipeVars, protoVars, raceVars, bridgeVars, fwVars>>

\* a subscriber receives one packet from the channel Subscribe returned
SubRead(c) ==
  /\ subState[c] = "subscribed"
  /\ chQueue[c] # <<>>
  /\ received' = [received EXCEPT ![c] = Append(@, Head(chQueue[c]))]
  /\ chQueue' = [chQueue EXCEPT ![c] = Tail(@)]
  /\ UNCHANGED <<hubPkt, hubTodo, cancelled, hubPc, broadcast, clients, chCap, chCloses, subState,
                 unregPending, unsubCalls, unregSeen, pubPc, pubNext, published, offerLog, lisVars, pipeVars, protoVars, raceVars, bridgeVars, fwVars>>


\* ------------------------------------------------------------- machine integers
\* Go's int on the 64-bit targets: four 16-bit limbs, least significant first, two's
\* complement, so that + wraps at 2^64 as the machine's does
Limb == 65536

\* the int of a number n with -2^31 <= n < 2^31
IntOf(n) ==
  IF n >= 0 THEN <<n % Limb, n \div Limb, 0, 0>>
  ELSE <<n % Limb, (n \div Limb) % Limb, Limb - 1, Limb - 1>>

MaxInt == <<Limb - 1, Limb - 1, Limb - 1, (Limb \div 2) - 1>>

IntIsNeg(a) == a[4] >= Limb \div 2

\* a + b as the machine computes it (the carry out of the top limb is lost)
IntAdd(a, b) ==
  LET s1 == a[1] + b[1]
      s2 == a[2] + b[2] + (s1 \div Limb)
      s3 == a[3] + b[3] + (s2 \div Limb)
      s4 == a[4] + b[4] + (s3 \div Limb)
  IN <<s1 % Limb, s2 % Limb, s3 % Limb, s4 % Limb>>

\* -a as the machine computes it
IntMinus(a) ==
  IntAdd(<<Limb - 1 - a[1], Limb - 1 - a[2], Limb - 1 - a[3], Limb - 1 - a[4]>>, IntOf(1))

\* a < b, signed
IntLess(a, b) ==
  IF IntIsNeg(a) # IntIsNeg(b) THEN IntIsNeg(a)
  ELSE \/ a[4] < b[4]
       \/ a[4] = b[4] /\ a[3] < b[3]
       \/ a[4] = b[4] /\ a[3] = b[3] /\ a[2] < b[2]
       \/ a[4] = b[4] /\ a[3] = b[3] /\ a[2] = b[2] /\ a[1] < b[1]

\* the number an int stands for, when it lies in -2^31 .. 2^31 - 1
NumOf(a) ==
  IF IntIsNeg(a) THEN a[1] + Limb * (a[2] - Limb) ELSE a[1] + Limb * a[2]

\* a * n for a count n >= 0, as the machine computes the product: modulo 2^64
RECURSIVE IntTimes(_, _)
IntTimes(a, n) ==
  IF n = 0 THEN IntOf(0)
  ELSE CHOOSE sum \in {IntAdd(before, a) : before \in {IntTimes(a, n - 1)}} : TRUE

\* ------------------------------------------------------------- transport.Listener
\* part_002:150-151  wait := min(l.reconnect*time.Duration(attempt), l.reconnectMax)
\* time.Duration is an int64 of nanoseconds: the product wraps, and min compares signed
BackoffWait(n) ==
  LET product == IntTimes(reconnect, n)
  IN IF IntLess(product, reconnectMax) THEN product ELSE reconnectMax

\* 2^62 ns, an interval WithReconnectInterval accepts (any d > 0)
HugeInterval == <<0, 0, 0, Limb \div 4>>

\* index of the first 0x00 of b, or 0 when there is none (bufio.Reader.ReadBytes(0x00))
FirstZero(b) == IF \E i \in 1..Len(b) : b[i] = 0
                  THEN CHOOSE i \in 1..Len(b) : b[i] = 0 /\ \A j \in 1..(i - 1) : b[j] # 0
                  ELSE 0

\* part_002:132-140  what handleConn keeps of the bytes ReadBytes returned
StripDelimiter(frame) ==
  IF Len(frame) > 0 /\ frame[Len(frame)] = 0 THEN SubSeq(frame, 1, Len(frame) - 1) ELSE frame

\* the listener is absent (hub-only programs such as the hub tests)
LisOff ==
  /\ reconnect = IntOf(1) /\ reconnectMax = IntOf(1) /\ readTimeout = 0
  /\ lPc = "off" /\ attempt = 0 /\ wait = IntOf(0) /\ connOpen = 0 /\ framers = 0
  /\ rbuf = <<>> /\ payload = <<>> /\ out = <<>>
  /\ reachable = FALSE /\ peerOpen = FALSE /\ wire = <<>> /\ sent = 0
  /\ sessBytes = <<>> /\ emitted = <<>> /\ dials = 0 /\ framerStarts = 0
  /\ failStreak = 0 /\ backoffAfter = "none" /\ prevWait = IntOf(0) /\ slept = FALSE
  /\ lastRead = "none" /\ handled = "none"

\* part_002:71-85  StartListener with its options; run has not yet executed a statement
LisInit ==
  /\ reconnect \in {IntOf(d) : d \in 1..MaxReconnect} \cup {HugeInterval}
  /\ reconnectMax \in {IntOf(d) : d \in 1..MaxReconnectMax}
  /\ readTimeout \in {0, 1}
  /\ lPc = "check" /\ attempt = 0 /\ wait = IntOf(0) /\ connOpen = 0 /\ framers = 0
  /\ rbuf = <<>> /\ payload = <<>> /\ out = <<>>
  /\ reachable \in BOOLEAN /\ peerOpen = FALSE /\ wire = <<>> /\ sent = 0
  /\ sessBytes = <<>> /\ emitted = <<>> /\ dials = 0 /\ framerStarts = 0
  /\ failStreak = 0 /\ backoffAfter = "none" /\ prevWait = IntOf(0) /\ slept = FALSE
  /\ lastRead = "none" /\ handled = "none"

lisConfig == <<reconnect, reconnectMax, readTimeout>>

\* environment: the source starts or stops accepting connections; it refuses at
\* most MaxAttempt dials in a row
SourceUp ==
  /\ lPc # "off" /\ ~reachable
  /\ reachable' = TRUE
  /\ UNCHANGED <<cancelled, hubVars, lisConfig, lPc, attempt, wait, connOpen, framers, rbuf,
                 payload, out, peerOpen, wire, sent, sessBytes, emitted, dials, framerStarts,
                 failStreak, backoffAfter, prevWait, slept, pipeVars, lastRead, handled, protoVars, raceVars, bridgeVars, fwVars>>

SourceDown ==
  /\ lPc # "off" /\ reachable /\ attempt < MaxAttempt
  /\ reachable' = FALSE
  /\ UNCHANGED <<cancelled, hubVars, lisConfig, lPc, attempt, wait, connOpen, framers, rbuf,
                 payload, out, peerOpen, wire, sent, sessBytes, emitted, dials, framerStarts,
                 failStreak, backoffAfter, prevWait, slept, pipeVars, lastRead, handled, protoVars, raceVars, bridgeVars, fwVars>>

\* environment: the peer writes one byte on the current connection
SourceSend(b) ==
  /\ connOpen > 0 /\ peerOpen /\ sent < MaxBytes
  /\ wire' = Append(wire, b)
  /\ sessBytes' = Append(sessBytes, b)
  /\ sent' = sent + 1
  /\ UNCHANGED <<cancelled, hubVars, lisConfig, lPc, attempt, wait, connOpen, framers, rbuf,
                 payload, out, reachable, peerOpen, emitted, dials, framerStarts,
                 failStreak, backoffAfter, prevWait, slept, pipeVars, lastRead, handled, protoVars, raceVars, bridgeVars, fwVars>>

\* environment: the peer closes the current connection (the last session of a run stays open)
SourceClose ==
  /\ connOpen > 0 /\ peerOpen /\ dials < MaxDials
  /\ peerOpen' = FALSE
  /\ UNCHANGED <<cancelled, hubVars, lisConfig, lPc, attempt, wait, connOpen, framers, rbuf,
                 payload, out, reachable, wire, sent, sessBytes, emitted, dials, framerStarts,
                 failStreak, backoffAfter, prevWait, slept, pipeVars, lastRead, handled, protoVars, raceVars, bridgeVars, fwVars>>

\* environment: the consumer of l.out takes a frame
DrainOut ==
  /\ lPc # "off" /\ out # <<>>
  /\ out' = Tail(out)
  /\ UNCHANGED <<cancelled, hubVars, lisConfig, lPc, attempt, wait, connOpen, framers, rbuf,
                 payload, reachable, peerOpen, wire, sent, sessBytes, emitted, dials,
                 framerStarts, failStreak, backoffAfter, prevWait, slept, pipeVars, lastRead, handled, protoVars, raceVars, bridgeVars, fwVars>>

\* part_002:90-94  top of the run loop: return when cancelled, else dial
RunCheck ==
  /\ lPc = "check"
  /\ lPc' = IF cancelled THEN "done" ELSE "dial"
  /\ UNCHANGED <<cancelled, hubVars, lisConfig, attempt, wait, connOpen, framers, rbuf,
                 payload, out, reachable, peerOpen, wire, sent, sessBytes, emitted, dials,
                 framerStarts, failStreak, backoffAfter, prevWait, slept, pipeVars, lastRead, handled, protoVars, raceVars, bridgeVars, fwVars>>

DialFailEndsRun ==
  /\ lPc = "dial" /\ ~reachable
  /\ attempt' = attempt + 1
  /\ wait' = BackoffWait(attempt + 1)
  /\ lPc' = "done"
  /\ failStreak' = failStreak + 1
  /\ backoffAfter' = "dial"
  /\ slept' = FALSE
  /\ reachable' = (attempt + 1 >= MaxAttempt)
  /\ lastRead' = "none" /\ handled' = "dial"
  /\ UNCHANGED <<cancelled, hubVars, lisConfig, connOpen, framers, rbuf, payload, out,
                 peerOpen, wire, sent, sessBytes, emitted, dials, framerStarts, prevWait, pipeVars, protoVars, raceVars, bridgeVars, fwVars>>

\* part_002:94-98  DialTimeout fails: attempt++, enter sleepBackoff(ctx, attempt)
DialFail ==
  /\ lPc = "dial" /\ ~reachable
  /\ attempt' = attempt + 1
  /\ wait' = BackoffWait(attempt + 1)
  /\ lPc' = "backoff"
  /\ failStreak' = failStreak + 1
  /\ backoffAfter' = "dial"
  /\ slept' = FALSE
  /\ reachable' = (attempt + 1 >= MaxAttempt)
  /\ lastRead' = "none" /\ handled' = "dial"
  /\ UNCHANGED <<cancelled, hubVars, lisConfig, connOpen, framers, rbuf, payload, out,
                 peerOpen, wire, sent, sessBytes, emitted, dials, framerStarts, prevWait, pipeVars, protoVars, raceVars, bridgeVars, fwVars>>

\* part_002:94-103,116  DialTimeout succeeds: attempt = 0, handleConn starts with a new reader
DialOk ==
  /\ lPc = "dial" /\ reachable
  /\ attempt' = 0
  /\ connOpen' = connOpen + 1
  /\ framers' = framers + 1
  /\ rbuf' = <<>>
  /\ lPc' = "connCheck"
  /\ peerOpen' = TRUE /\ wire' = <<>> /\ sessBytes' = <<>> /\ emitted' = <<>>
  /\ dials' = dials + 1 /\ framerStarts' = framerStarts + 1
  /\ failStreak' = 0 /\ backoffAfter' = "none" /\ prevWait' = IntOf(0) /\ slept' = FALSE
  /\ lastRead' = "none" /\ handled' = "none"
  /\ UNCHANGED <<cancelled, hubVars, lisConfig, wait, payload, out, reachable, sent, pipeVars, protoVars, raceVars, bridgeVars, fwVars>>

\* part_002:153-157  sleepBackoff: the timer fires
BackoffTimer ==
  /\ lPc = "backoff"
  /\ lPc' = "check"
  /\ wait' = IntOf(0)
  /\ prevWait' = IF backoffAfter = "dial" THEN wait ELSE prevWait
  /\ slept' = TRUE
  /\ UNCHANGED <<cancelled, hubVars, lisConfig, attempt, connOpen, framers, rbuf,
                 payload, out, reachable, peerOpen, wire, sent, sessBytes, emitted, dials,
                 framerStarts, failStreak, backoffAfter, pipeVars, lastRead, handled, protoVars, raceVars, bridgeVars, fwVars>>

\* part_002:153-157  sleepBackoff: ctx.Done() wins
BackoffCancel ==
  /\ lPc = "backoff" /\ cancelled
  /\ lPc' = "check"
  /\ wait' = IntOf(0)
  /\ prevWait' = IF backoffAfter = "dial" THEN wait ELSE prevWait
  /\ slept' = FALSE
  /\ UNCHANGED <<cancelled, hubVars, lisConfig, attempt, connOpen, framers, rbuf,
                 payload, out, reachable, peerOpen, wire, sent, sessBytes, emitted, dials,
                 framerStarts, failStreak, backoffAfter, pipeVars, lastRead, handled, protoVars, raceVars, bridgeVars, fwVars>>

\* part_002:118-124  top of the handleConn loop: return when cancelled, else enter ReadBytes
ConnCheck ==
  /\ lPc = "connCheck"
  /\ IF cancelled THEN /\ lPc' = "connRet"
                       /\ framers' = framers - 1
                  ELSE /\ lPc' = "read"
                       /\ UNCHANGED framers
  /\ lastRead' = IF cancelled THEN lastRead ELSE "none"
  /\ UNCHANGED <<cancelled, hubVars, lisConfig, attempt, wait, connOpen, rbuf,
                 payload, out, reachable, peerOpen, wire, sent, sessBytes, emitted, dials,
                 framerStarts, failStreak, backoffAfter, prevWait, slept, pipeVars, handled, protoVars, raceVars, bridgeVars, fwVars>>

\* bufio.Reader.fill inside ReadBytes: one conn.Read returns n of the bytes on the wire
ReadFill(n) ==
  /\ lPc = "read"
  /\ FirstZero(rbuf) = 0
  /\ n \in 1..Len(wire)
  /\ rbuf' = rbuf \o SubSeq(wire, 1, n)
  /\ wire' = SubSeq(wire, n + 1, Len(wire))
  /\ UNCHANGED <<cancelled, hubVars, lisConfig, lPc, attempt, wait, connOpen, framers,
                 payload, out, reachable, peerOpen, sent, sessBytes, emitted, dials,
                 framerStarts, failStreak, backoffAfter, prevWait, slept, pipeVars, lastRead, handled, protoVars, raceVars, bridgeVars, fwVars>>

\* part_002:124,132-141  ReadBytes returns through the delimiter; empty frames are
\* skipped, others are copied and offered
ReadFrame ==
  /\ lPc = "read"
  /\ FirstZero(rbuf) > 0
  /\ LET k == FirstZero(rbuf)
         frame == StripDelimiter(SubSeq(rbuf, 1, k))
     IN /\ rbuf' = SubSeq(rbuf, k + 1, Len(rbuf))
        /\ IF Len(frame) = 0
             THEN lPc' = "connCheck" /\ UNCHANGED payload
             ELSE lPc' = "offer" /\ payload' = frame
  /\ lastRead' = "frame"
  /\ UNCHANGED <<cancelled, hubVars, lisConfig, attempt, wait, connOpen, framers,
                 out, reachable, peerOpen, wire, sent, sessBytes, emitted, dials,
                 framerStarts, failStreak, backoffAfter, prevWait, slept, pipeVars, handled, protoVars, raceVars, bridgeVars, fwVars>>

\* part_002:121-128  the read deadline passes before a delimiter is found: ReadBytes
\* returns the bytes read so far with a timeout error, and the loop continues
ReadTimeout ==
  /\ lPc = "read"
  /\ readTimeout > 0
  /\ FirstZero(rbuf) = 0
  /\ rbuf' = <<>>
  /\ lPc' = "connCheck"
  /\ lastRead' = "timeout"
  /\ UNCHANGED <<cancelled, hubVars, lisConfig, attempt, wait, connOpen, framers,
                 payload, out, reachable, peerOpen, wire, sent, sessBytes, emitted, dials,
                 framerStarts, failStreak, backoffAfter, prevWait, slept, pipeVars, handled, protoVars, raceVars, bridgeVars, fwVars>>

\* a framer that offers the bytes left in its buffer when the stream ends
ReadErrorOffersRest ==
  /\ lPc = "read"
  /\ FirstZero(rbuf) = 0
  /\ ~peerOpen /\ wire = <<>>
  /\ rbuf' = <<>>
  /\ IF rbuf = <<>>
       THEN lPc' = "connRet" /\ framers' = framers - 1 /\ UNCHANGED payload
       ELSE lPc' = "offer" /\ payload' = rbuf /\ UNCHANGED framers
  /\ lastRead' = "error"
  /\ UNCHANGED <<cancelled, hubVars, lisConfig, attempt, wait, connOpen,
                 out, reachable, peerOpen, wire, sent, sessBytes, emitted, dials,
                 framerStarts, failStreak, backoffAfter, prevWait, slept, pipeVars, handled, protoVars, raceVars, bridgeVars, fwVars>>

\* part_002:124-129  the stream ends before a delimiter is found: handleConn returns the error
ReadError ==
  /\ lPc = "read"
  /\ FirstZero(rbuf) = 0
  /\ ~peerOpen /\ wire = <<>>
  /\ rbuf' = <<>>
  /\ lPc' = "connRet"
  /\ framers' = framers - 1
  /\ lastRead' = "error"
  /\ UNCHANGED <<cancelled, hubVars, lisConfig, attempt, wait, connOpen,
                 payload, out, reachable, peerOpen, wire, sent, sessBytes, emitted, dials,
                 framerStarts, failStreak, backoffAfter, prevWait, slept, pipeVars, handled, protoVars, raceVars, bridgeVars, fwVars>>

\* part_002:142-143  case l.out <- payload
OfferSend ==
  /\ lPc = "offer"
  /\ Len(out) < OutCap
  /\ out' = Append(out, payload)
  /\ emitted' = Append(emitted, payload)
  /\ lPc' = "connCheck"
  /\ UNCHANGED <<cancelled, hubVars, lisConfig, attempt, wait, connOpen, framers, rbuf,
                 payload, reachable, peerOpen, wire, sent, sessBytes, dials,
                 framerStarts, failStreak, backoffAfter, prevWait, slept, pipeVars, lastRead, handled, protoVars, raceVars, bridgeVars, fwVars>>

\* part_002:144-145  case <-ctx.Done(): return ctx.Err()
OfferCancel ==
  /\ lPc = "offer"
  /\ cancelled
  /\ lPc' = "connRet"
  /\ framers' = framers - 1
  /\ UNCHANGED <<cancelled, hubVars, lisConfig, attempt, wait, connOpen, rbuf,
                 payload, out, reachable, peerOpen, wire, sent, sessBytes, emitted, dials,
                 framerStarts, failStreak, backoffAfter, prevWait, slept, pipeVars, lastRead, handled, protoVars, raceVars, bridgeVars, fwVars>>

AfterConnLeavesOpen ==
  /\ lPc = "connRet"
  /\ wire' = <<>> /\ sessBytes' = <<>> /\ emitted' = <<>> /\ payload' = <<>>
  /\ IF cancelled
       THEN lPc' = "done" /\ UNCHANGED <<wait, backoffAfter>>
       ELSE lPc' = "backoff" /\ wait' = BackoffWait(1) /\ backoffAfter' = "conn"
  /\ handled' = IF ~cancelled /\ lastRead = "error" THEN "read" ELSE handled
  /\ UNCHANGED <<cancelled, hubVars, lisConfig, attempt, connOpen, framers, rbuf,
                 out, reachable, peerOpen, sent, dials,
                 framerStarts, failStreak, prevWait, slept, pipeVars, lastRead, protoVars, raceVars, bridgeVars, fwVars>>

AfterConnDropsError ==
  /\ lPc = "connRet"
  /\ connOpen' = connOpen - 1
  /\ wire' = <<>> /\ sessBytes' = <<>> /\ emitted' = <<>> /\ payload' = <<>>
  /\ IF cancelled
       THEN lPc' = "done" /\ UNCHANGED <<wait, backoffAfter>>
       ELSE lPc' = "backoff" /\ wait' = BackoffWait(1) /\ backoffAfter' = "conn"
  /\ handled' = handled
  /\ UNCHANGED <<cancelled, hubVars, lisConfig, attempt, framers, rbuf,
                 out, reachable, peerOpen, sent, dials,
                 framerStarts, failStreak, prevWait, slept, pipeVars, lastRead, protoVars, raceVars, bridgeVars, fwVars>>

\* part_002:104-111  after handleConn: close the connection, return when cancelled,
\* else report the error and enter sleepBackoff(ctx, 1)
AfterConn ==
  /\ lPc = "connRet"
  /\ connOpen' = connOpen - 1
  /\ wire' = <<>> /\ sessBytes' = <<>> /\ emitted' = <<>> /\ payload' = <<>>
  /\ IF cancelled
       THEN lPc' = "done" /\ UNCHANGED <<wait, backoffAfter>>
       ELSE lPc' = "backoff" /\ wait' = BackoffWait(1) /\ backoffAfter' = "conn"
  /\ handled' = IF ~cancelled /\ lastRead = "error" THEN "read" ELSE handled
  /\ UNCHANGED <<cancelled, hubVars, lisConfig, attempt, framers, rbuf,
                 out, reachable, peerOpen, sent, dials,
                 framerStarts, failStreak, prevWait, slept, pipeVars, lastRead, protoVars, raceVars, bridgeVars, fwVars>>

Dial == DialFail \/ DialOk

\* consumeFrames and the sink are absent
PipeOff ==
  /\ textID = 3
  /\ dynamicRegistry = <<>>
  /\ cfPc = "off"
  /\ cfPacket = <<>>
  /\ sinkPc = "off"
  /\ written = <<>>
  /\ encErr = FALSE
  /\ sinkLog = <<>>
  /\ sinkPkt = <<>>
  /\ fed = 0
  /\ consumed = <<>>

\* no protocol function is being called on its own
ProtoOff ==
  /\ fnPc = "off"
  /\ fnIn = <<>>
  /\ fnOut = <<>>

\* no firmware is modelled
FwOff ==
  /\ ring = <<>>
  /\ emPc = "off"
  /\ emIn = <<>>
  /\ emState = <<>>
  /\ emTodo = <<>>
  /\ emRet = <<>>
  /\ emDone = <<>>
  /\ hostWr = -1
  /\ hostSeen = <<>>

\* no goroutines are using the registry concurrently
RaceOff ==
  /\ muWriter = FALSE
  /\ muReaders = 0
  /\ wPc = "off"
  /\ wArg = <<>>
  /\ rPc = "off"
  /\ rId = 0
  /\ rRet = <<>>
  /\ current = <<>>
  /\ during = {}

\* no WebSocket bridge is running
BridgeOff ==
  /\ wsPc = <<>>
  /\ wlPc = <<>>
  /\ wlMsg = <<>>
  /\ wsWire = <<>>
  /\ wsSend = <<>>
  /\ wsSendOpen = <<>>
  /\ wsOnce = <<>>
  /\ wsCloses = <<>>
  /\ wsSubs = <<>>
  /\ wsClients = {}
  /\ bcPc = "off"
  /\ bcTodo = {}
  /\ bcChan = 0
  /\ bcOut = <<>>
  /\ bcCount = 0
  /\ bcDropped = {}
  /\ bcClient = 0
  /\ bcIds = <<>>
  /\ bcPayload = 0
  /\ imageEnabled = FALSE
  /\ imPc = "off"
  /\ imTodo = {}
  /\ imClient = 0
  /\ imIds = <<>>
  /\ imCount = 0
  /\ rlOps = <<>>
  /\ rlMsg = <<>>
  /\ runPc = "off"
  /\ wsCrashed = FALSE

InitListener ==
  /\ cancelled = FALSE
  /\ HubOff
  /\ LisInit
  /\ PipeOff
  /\ ProtoOff /\ RaceOff /\ BridgeOff /\ FwOff

NextListener ==
  \/ Cancel
  \/ SourceUp
  \/ SourceDown
  \/ \E b \in ByteVals : SourceSend(b)
  \/ SourceClose
  \/ DrainOut
  \/ RunCheck
  \/ DialFail
  \/ DialOk
  \/ BackoffTimer
  \/ BackoffCancel
  \/ ConnCheck
  \/ \E n \in 1..MaxBytes : ReadFill(n)
  \/ ReadFrame
  \/ ReadTimeout
  \/ ReadError
  \/ OfferSend
  \/ OfferCancel
  \/ AfterConn

SpecListener == InitListener /\ [][NextListener]_vars

\* every step of the supervisor that can proceed is eventually taken: a dial
\* returns within the dial timeout, a timer fires, a read returns once the
\* socket has data, an error or an expired deadline, a select takes a ready case
FairSpecListener ==
  /\ SpecListener
  /\ WF_vars(RunCheck) /\ WF_vars(Dial) /\ WF_vars(BackoffTimer) /\ WF_vars(ConnCheck)
  /\ WF_vars(\E n \in 1..MaxBytes : ReadFill(n)) /\ WF_vars(ReadFrame)
  /\ WF_vars(ReadTimeout) /\ WF_vars(ReadError)
  /\ WF_vars(OfferSend) /\ WF_vars(OfferCancel) /\ WF_vars(AfterConn)

\* ------------------------------------------------------------- listener properties
connected == lPc \in {"connCheck", "read", "offer"}

\* the non-empty byte runs that precede each 0x00 of b, in order, delimiter stripped
RECURSIVE FramesOf(_)
FramesOf(b) ==
  LET k == FirstZero(b) IN
    IF k = 0 THEN <<>>
    ELSE IF k = 1 THEN FramesOf(SubSeq(b, 2, Len(b)))
    ELSE <<SubSeq(b, 1, k - 1)>> \o FramesOf(SubSeq(b, k + 1, Len(b)))

\* bytes of the session that ReadBytes has already returned to handleConn
Processed == SubSeq(sessBytes, 1, Len(sessBytes) - Len(wire) - Len(rbuf))

\* frames offered so far in this session: accepted by l.out, or being offered now
Offered == IF lPc = "offer" THEN Append(emitted, payload) ELSE emitted

\* C6: after cancellation the supervisor returns, whatever it is doing:
\* dialing, reading from a silent source, offering to a full queue or sleeping.
C6_CancelEndsSupervisor == cancelled ~> (lPc = "done")

\* C7: at most one connection and one framer at any moment; no dial starts
\* while a connection is open or a framer is running; every successful dial starts
\* exactly one framer.
C7_OneConnOneFramer ==
  /\ connOpen <= 1
  /\ framers <= 1
  /\ lPc \in {"check", "dial", "backoff", "done"} => connOpen = 0 /\ framers = 0
  /\ connected => connOpen = 1 /\ framers = 1
  /\ framerStarts = dials

C7_Witness ==
  /\ dials = 2 /\ framerStarts = 2 /\ connected /\ sessBytes # <<>>

\* C8: the supervisor ends only by cancellation; if the source becomes and
\* stays reachable, a connection is established again and again unless cancelled.
C8_FailuresDoNotEndSupervisor ==
  /\ [](lPc = "done" => cancelled)
  /\ (<>[]reachable) => []<>(cancelled \/ connected)

C8_Witness ==
  /\ ~cancelled /\ lPc = "dial" /\ dials = 1 /\ failStreak = 2 /\ reachable

\* the number min(k * interval, cap) for durations interval > 0 and cap > 0, without
\* the wrap of the machine's product: a partial sum below cap plus an interval stays
\* below 2^64, and one that reaches 2^63 reads as negative
RECURSIVE CappedProduct(_, _, _)
CappedProduct(interval, k, cap) ==
  IF k = 0 THEN IntOf(0)
  ELSE LET before == CappedProduct(interval, k - 1, cap)
           sum == IntAdd(before, interval)
       IN IF before = cap \/ IntIsNeg(sum) \/ ~IntLess(sum, cap) THEN cap ELSE sum

\* C9: the wait after the k-th consecutive dial failure is
\* min(k * reconnect, reconnectMax): never above reconnectMax, never below the wait of
\* failure k-1, and k restarts at 1 after a successful dial; the next dial starts only
\* after that wait has run to its timer.
C9_LinearCappedBackoff ==
  /\ (lPc = "backoff" /\ backoffAfter = "dial") =>
        /\ failStreak >= 1
        /\ wait = CappedProduct(reconnect, failStreak, reconnectMax)
        /\ ~IntLess(reconnectMax, wait)
        /\ ~IntLess(wait, prevWait)
        /\ failStreak = 1 => wait = CappedProduct(reconnect, 1, reconnectMax)
  /\ (lPc = "dial" /\ failStreak >= 1) => slept

\* C10: within a session the frames offered to l.out are exactly the
\* non-empty runs before each delimiter among the bytes read so far, in order.
C10_FramesAreDelimitedRuns ==
  connected => Offered = FramesOf(Processed)

\* after a read deadline expired the loop is back at its top with the connection open
\* and the framer alive, and a timeout is never what the error handler is given
TimeoutKeepsConnection ==
  /\ (lastRead = "timeout" /\ ~cancelled) =>
        (readTimeout > 0 /\ lPc = "connCheck" /\ connOpen = 1 /\ framers = 1)
  /\ handled = "read" => lastRead = "error"

\* a read failure other than a timeout has ended the framer of that connection
ReadFailureEndsFramer ==
  lastRead = "error" => (framers = 0 /\ ~connected)

\* C11 as stated: a timeout keeps the connection and the loop going; any
\* other read failure ends the framer, and once the supervisor has moved on the error
\* has been passed to its error handler.
C11_ReadFailureAlwaysReported ==
  /\ TimeoutKeepsConnection
  /\ ReadFailureEndsFramer
  /\ (lastRead = "error" /\ lPc # "connRet") => handled = "read"

\* C11 amended: as above, except that the error is not passed to the error
\* handler when cancellation has fired by the time the supervisor checks it after
\* closing the connection; the supervisor then returns at once.
C11_ReadFailureReportedUnlessCancelled ==
  /\ TimeoutKeepsConnection
  /\ ReadFailureEndsFramer
  /\ (lastRead = "error" /\ lPc # "connRet") =>
        \/ handled = "read"
        \/ (cancelled /\ lPc = "done" /\ backoffAfter = "none" /\ connOpen = 0)

C11_Witness ==
  /\ readTimeout > 0 /\ ~cancelled
  /\ lastRead = "error" /\ handled = "read" /\ lPc = "backoff" /\ connOpen = 0

\* the session is open or has just ended and its bytes are still on record
inSession == lPc \in {"connCheck", "read", "offer", "connRet"}

\* the frame f is a run of the bytes b that is followed at once by a 0x00
LiesBeforeDelimiter(f, b) ==
  \E i \in 1..Len(b) :
    /\ i + Len(f) <= Len(b)
    /\ SubSeq(b, i, i + Len(f) - 1) = f
    /\ b[i + Len(f)] = 0

\* C33: every frame offered in a session is a run of that session's own bytes that
\* ends at one of its delimiters, and there are no more frames than delimiters: the
\* bytes after the last delimiter are not offered, and no frame holds bytes of an
\* earlier session.
C33_FramesWithinOneSession ==
  inSession =>
    /\ \A k \in 1..Len(Offered) : LiesBeforeDelimiter(Offered[k], Processed)
    /\ Len(Offered) <= Cardinality({i \in 1..Len(Processed) : Processed[i] = 0})

C33_Witness ==
  /\ lPc = "connRet" /\ lastRead = "error"
  /\ Len(sessBytes) = 2 /\ sessBytes[1] = 0 /\ sessBytes[2] # 0
  /\ Processed = sessBytes
  /\ emitted = <<>> /\ out = <<>>

\* C35: with a read deadline set, a frame offered after a read timeout still holds
\* every byte received on the connection since the previous delimiter, in order.
C35_TimeoutLosesNoBytes ==
  (connected /\ readTimeout > 0) =>
    /\ Len(Offered) = Len(FramesOf(Processed))
    /\ \A k \in 1..Len(Offered) : Offered[k] = FramesOf(Processed)[k]

\* ------------------------------------------------------------- protocol
\* the decoder with the "bytes remain" test left out of rat_cobs.c:144
RECURSIVE CobsDecodeAlwaysZero(_, _, _)
CobsDecodeAlwaysZero(frame, i, acc) ==
  IF i > Len(frame) THEN [err |-> FALSE, out |-> acc]
  ELSE LET code == frame[i]
           count == code - 1
           next == i + 1 + count
       IN IF code = 0 THEN [err |-> TRUE, out |-> <<>>]
          ELSE IF next - 1 > Len(frame) THEN [err |-> TRUE, out |-> <<>>]
          ELSE LET lit == SubSeq(frame, i + 1, next - 1)
                   sep == IF code # 255 THEN <<0>> ELSE <<>>
               IN CobsDecodeAlwaysZero(frame, next, acc \o lit \o sep)

\* rat_cobs.c:123-150  CobsDecode: [err, out]; i is the 1-based read position
RECURSIVE CobsDecodeFrom(_, _, _)
CobsDecodeFrom(frame, i, acc) ==
  IF i > Len(frame) THEN [err |-> FALSE, out |-> acc]
  ELSE LET code == frame[i]
           count == code - 1
           next == i + 1 + count
       IN IF code = 0 THEN [err |-> TRUE, out |-> <<>>]
          ELSE IF next - 1 > Len(frame) THEN [err |-> TRUE, out |-> <<>>]
          ELSE LET lit == SubSeq(frame, i + 1, next - 1)
                   sep == IF code # 255 /\ next <= Len(frame) THEN <<0>> ELSE <<>>
               IN CobsDecodeFrom(frame, next, acc \o lit \o sep)

CobsDecode(frame) == CobsDecodeFrom(frame, 1, <<>>)

\* little-endian unsigned value of a byte sequence (binary.LittleEndian.UintN)
RECURSIVE LittleEndian(_)
LittleEndian(data) ==
  IF data = <<>> THEN 0 ELSE Head(data) + 256 * LittleEndian(Tail(data))

RECURSIVE Pow2(_)
Pow2(n) == IF n = 0 THEN 1 ELSE 2 * Pow2(n - 1)

\* two's complement reading of an unsigned value of the given width
Signed(u, bits) == IF u >= Pow2(bits - 1) THEN u - Pow2(bits) ELSE u

\* strings a caller passes are sequences of runes: an ASCII rune is the one-character
\* string, any other rune is written U+ and its code point in hexadecimal
\* strings.ToLower maps each rune with unicode.ToLower, whatever the rune. The tables
\* below hold every rune that unicode.ToLower changes, each followed by the rune it
\* gives (the lower-case mappings of the Unicode 15.0 tables of package unicode):
\* 1405 runes above ASCII, kept by the leading digits of their code point. A-Z give
\* a-z, and two runes above ASCII have an ASCII lower case: U+0130, the dotted capital
\* I, gives i and U+212A, the Kelvin sign, gives k. Every other rune is left as it is
LowerTable(block) ==
  CASE block = "U+00" ->
      "U+00C0U+00E0U+00C1U+00E1U+00C2U+00E2U+00C3U+00E3U+00C4U+00E4U+00C5U+00E5"
      \o "U+00C6U+00E6U+00C7U+00E7U+00C8U+00E8U+00C9U+00E9U+00CAU+00EAU+00CBU+00EB"
      \o "U+00CCU+00ECU+00CDU+00EDU+00CEU+00EEU+00CFU+00EFU+00D0U+00F0U+00D1U+00F1"
      \o "U+00D2U+00F2U+00D3U+00F3U+00D4U+00F4U+00D5U+00F5U+00D6U+00F6U+00D8U+00F8"
      \o "U+00D9U+00F9U+00DAU+00FAU+00DBU+00FBU+00DCU+00FCU+00DDU+00FDU+00DEU+00FE"
    [] block = "U+01" ->
      "U+0100U+0101U+0102U+0103U+0104U+0105U+0106U+0107U+0108U+0109U+010AU+010B"
      \o "U+010CU+010DU+010EU+010FU+0110U+0111U+0112U+0113U+0114U+0115U+0116U+0117"
      \o "U+0118U+0119U+011AU+011BU+011CU+011DU+011EU+011FU+0120U+0121U+0122U+0123"
      \o "U+0124U+0125U+0126U+0127U+0128U+0129U+012AU+012BU+012CU+012DU+012EU+012F"
      \o "U+0132U+0133U+0134U+0135U+0136U+0137U+0139U+013AU+013BU+013CU+013DU+013E"
      \o "U+013FU+0140U+0141U+0142U+0143U+0144U+0145U+0146U+0147U+0148U+014AU+014B"
      \o "U+014CU+014DU+014EU+014FU+0150U+0151U+0152U+0153U+0154U+0155U+0156U+0157"
      \o "U+0158U+0159U+015AU+015BU+015CU+015DU+015EU+015FU+0160U+0161U+0162U+0163"
      \o "U+0164U+0165U+0166U+0167U+0168U+0169U+016AU+016BU+016CU+016DU+016EU+016F"
      \o "U+0170U+0171U+0172U+0173U+0174U+0175U+0176U+0177U+0178U+00FFU+0179U+017A"
      \o "U+017BU+017CU+017DU+017EU+0181U+0253U+0182U+0183U+0184U+0185U+0186U+0254"
      \o "U+0187U+0188U+0189U+0256U+018AU+0257U+018BU+018CU+018EU+01DDU+018FU+0259"
      \o "U+0190U+025BU+0191U+0192U+0193U+0260U+0194U+0263U+0196U+0269U+0197U+0268"
      \o "U+0198U+0199U+019CU+026FU+019DU+0272U+019FU+0275U+01A0U+01A1U+01A2U+01A3"
      \o "U+01A4U+01A5U+01A6U+0280U+01A7U+01A8U+01A9U+0283U+01ACU+01ADU+01AEU+0288"
      \o "U+01AFU+01B0U+01B1U+028AU+01B2U+028BU+01B3U+01B4U+01B5U+01B6U+01B7U+0292"
      \o "U+01B8U+01B9U+01BCU+01BDU+01C4U+01C6U+01C5U+01C6U+01C7U+01C9U+01C8U+01C9"
      \o "U+01CAU+01CCU+01CBU+01CCU+01CDU+01CEU+01CFU+01D0U+01D1U+01D2U+01D3U+01D4"
      \o "U+01D5U+01D6U+01D7U+01D8U+01D9U+01DAU+01DBU+01DCU+01DEU+01DFU+01E0U+01E1"
      \o "U+01E2U+01E3U+01E4U+01E5U+01E6U+01E7U+01E8U+01E9U+01EAU+01EBU+01ECU+01ED"
      \o "U+01EEU+01EFU+01F1U+01F3U+01F2U+01F3U+01F4U+01F5U+01F6U+0195U+01F7U+01BF"
      \o "U+01F8U+01F9U+01FAU+01FBU+01FCU+01FDU+01FEU+01FF"
    [] block = "U+02" ->
      "U+0200U+0201U+0202U+0203U+0204U+0205U+0206U+0207U+0208U+0209U+020AU+020B"
      \o "U+020CU+020DU+020EU+020FU+0210U+0211U+0212U+0213U+0214U+0215U+0216U+0217"
      \o "U+0218U+0219U+021AU+021BU+021CU+021DU+021EU+021FU+0220U+019EU+0222U+0223"
      \o "U+0224U+0225U+0226U+0227U+0228U+0229U+022AU+022BU+022CU+022DU+022EU+022F"
      \o "U+0230U+0231U+0232U+0233U+023AU+2C65U+023BU+023CU+023DU+019AU+023EU+2C66"
      \o "U+0241U+0242U+0243U+0180U+0244U+0289U+0245U+028CU+0246U+0247U+0248U+0249"
      \o "U+024AU+024BU+024CU+024DU+024EU+024F"
    [] block = "U+03" ->
      "U+0370U+0371U+0372U+0373U+0376U+0377U+037FU+03F3U+0386U+03ACU+0388U+03AD"
      \o "U+0389U+03AEU+038AU+03AFU+038CU+03CCU+038EU+03CDU+038FU+03CEU+0391U+03B1"
      \o "U+0392U+03B2U+0393U+03B3U+0394U+03B4U+0395U+03B5U+0396U+03B6U+0397U+03B7"
      \o "U+0398U+03B8U+0399U+03B9U+039AU+03BAU+039BU+03BBU+039CU+03BCU+039DU+03BD"
      \o "U+039EU+03BEU+039FU+03BFU+03A0U+03C0U+03A1U+03C1U+03A3U+03C3U+03A4U+03C4"
      \o "U+03A5U+03C5U+03A6U+03C6U+03A7U+03C7U+03A8U+03C8U+03A9U+03C9U+03AAU+03CA"
      \o "U+03ABU+03CBU+03CFU+03D7U+03D8U+03D9U+03DAU+03DBU+03DCU+03DDU+03DEU+03DF"
      \o "U+03E0U+03E1U+03E2U+03E3U+03E4U+03E5U+03E6U+03E7U+03E8U+03E9U+03EAU+03EB"
      \o "U+03ECU+03EDU+03EEU+03EFU+03F4U+03B8U+03F7U+03F8U+03F9U+03F2U+03FAU+03FB"
      \o "U+03FDU+037BU+03FEU+037CU+03FFU+037D"
    [] block = "U+04" ->
      "U+0400U+0450U+0401U+0451U+0402U+0452U+0403U+0453U+0404U+0454U+0405U+0455"
      \o "U+0406U+0456U+0407U+0457U+0408U+0458U+0409U+0459U+040AU+045AU+040BU+045B"
      \o "U+040CU+045CU+040DU+045DU+040EU+045EU+040FU+045FU+0410U+0430U+0411U+0431"
      \o "U+0412U+0432U+0413U+0433U+0414U+0434U+0415U+0435U+0416U+0436U+0417U+0437"
      \o "U+0418U+0438U+0419U+0439U+041AU+043AU+041BU+043BU+041CU+043CU+041DU+043D"
      \o "U+041EU+043EU+041FU+043FU+0420U+0440U+0421U+0441U+0422U+0442U+0423U+0443"
      \o "U+0424U+0444U+0425U+0445U+0426U+0446U+0427U+0447U+0428U+0448U+0429U+0449"
      \o "U+042AU+044AU+042BU+044BU+042CU+044CU+042DU+044DU+042EU+044EU+042FU+044F"
      \o "U+0460U+0461U+0462U+0463U+0464U+0465U+0466U+0467U+0468U+0469U+046AU+046B"
      \o "U+046CU+046DU+046EU+046FU+0470U+0471U+0472U+0473U+0474U+0475U+0476U+0477"
      \o "U+0478U+0479U+047AU+047BU+047CU+047DU+047EU+047FU+0480U+0481U+048AU+048B"
      \o "U+048CU+048DU+048EU+048FU+0490U+0491U+0492U+0493U+0494U+0495U+0496U+0497"
      \o "U+0498U+0499U+049AU+049BU+049CU+049DU+049EU+049FU+04A0U+04A1U+04A2U+04A3"
      \o "U+04A4U+04A5U+04A6U+04A7U+04A8U+04A9U+04AAU+04ABU+04ACU+04ADU+04AEU+04AF"
      \o "U+04B0U+04B1U+04B2U+04B3U+04B4U+04B5U+04B6U+04B7U+04B8U+04B9U+04BAU+04BB"
      \o "U+04BCU+04BDU+04BEU+04BFU+04C0U+04CFU+04C1U+04C2U+04C3U+04C4U+04C5U+04C6"
      \o "U+04C7U+04C8U+04C9U+04CAU+04CBU+04CCU+04CDU+04CEU+04D0U+04D1U+04D2U+04D3"
      \o "U+04D4U+04D5U+04D6U+04D7U+04D8U+04D9U+04DAU+04DBU+04DCU+04DDU+04DEU+04DF"
      \o "U+04E0U+04E1U+04E2U+04E3U+04E4U+04E5U+04E6U+04E7U+04E8U+04E9U+04EAU+04EB"
      \o "U+04ECU+04EDU+04EEU+04EFU+04F0U+04F1U+04F2U+04F3U+04F4U+04F5U+04F6U+04F7"
      \o "U+04F8U+04F9U+04FAU+04FBU+04FCU+04FDU+04FEU+04FF"
    [] block = "U+05" ->
      "U+0500U+0501U+0502U+0503U+0504U+0505U+0506U+0507U+0508U+0509U+050AU+050B"
      \o "U+050CU+050DU+050EU+050FU+0510U+0511U+0512U+0513U+0514U+0515U+0516U+0517"
      \o "U+0518U+0519U+051AU+051BU+051CU+051DU+051EU+051FU+0520U+0521U+0522U+0523"
      \o "U+0524U+0525U+0526U+0527U+0528U+0529U+052AU+052BU+052CU+052DU+052EU+052F"
      \o "U+0531U+0561U+0532U+0562U+0533U+0563U+0534U+0564U+0535U+0565U+0536U+0566"
      \o "U+0537U+0567U+0538U+0568U+0539U+0569U+053AU+056AU+053BU+056BU+053CU+056C"
      \o "U+053DU+056DU+053EU+056EU+053FU+056FU+0540U+0570U+0541U+0571U+0542U+0572"
      \o "U+0543U+0573U+0544U+0574U+0545U+0575U+0546U+0576U+0547U+0577U+0548U+0578"
      \o "U+0549U+0579U+054AU+057AU+054BU+057BU+054CU+057CU+054DU+057DU+054EU+057E"
      \o "U+054FU+057FU+0550U+0580U+0551U+0581U+0552U+0582U+0553U+0583U+0554U+0584"
      \o "U+0555U+0585U+0556U+0586"
    [] block = "U+10" ->
      "U+10A0U+2D00U+10A1U+2D01U+10A2U+2D02U+10A3U+2D03U+10A4U+2D04U+10A5U+2D05"
      \o "U+10A6U+2D06U+10A7U+2D07U+10A8U+2D08U+10A9U+2D09U+10AAU+2D0AU+10ABU+2D0B"
      \o "U+10ACU+2D0CU+10ADU+2D0DU+10AEU+2D0EU+10AFU+2D0FU+10B0U+2D10U+10B1U+2D11"
      \o "U+10B2U+2D12U+10B3U+2D13U+10B4U+2D14U+10B5U+2D15U+10B6U+2D16U+10B7U+2D17"
      \o "U+10B8U+2D18U+10B9U+2D19U+10BAU+2D1AU+10BBU+2D1BU+10BCU+2D1CU+10BDU+2D1D"
      \o "U+10BEU+2D1EU+10BFU+2D1FU+10C0U+2D20U+10C1U+2D21U+10C2U+2D22U+10C3U+2D23"
      \o "U+10C4U+2D24U+10C5U+2D25U+10C7U+2D27U+10CDU+2D2D"
    [] block = "U+13" ->
      "U+13A0U+AB70U+13A1U+AB71U+13A2U+AB72U+13A3U+AB73U+13A4U+AB74U+13A5U+AB75"
      \o "U+13A6U+AB76U+13A7U+AB77U+13A8U+AB78U+13A9U+AB79U+13AAU+AB7AU+13ABU+AB7B"
      \o "U+13ACU+AB7CU+13ADU+AB7DU+13AEU+AB7EU+13AFU+AB7FU+13B0U+AB80U+13B1U+AB81"
      \o "U+13B2U+AB82U+13B3U+AB83U+13B4U+AB84U+13B5U+AB85U+13B6U+AB86U+13B7U+AB87"
      \o "U+13B8U+AB88U+13B9U+AB89U+13BAU+AB8AU+13BBU+AB8BU+13BCU+AB8CU+13BDU+AB8D"
      \o "U+13BEU+AB8EU+13BFU+AB8FU+13C0U+AB90U+13C1U+AB91U+13C2U+AB92U+13C3U+AB93"
      \o "U+13C4U+AB94U+13C5U+AB95U+13C6U+AB96U+13C7U+AB97U+13C8U+AB98U+13C9U+AB99"
      \o "U+13CAU+AB9AU+13CBU+AB9BU+13CCU+AB9CU+13CDU+AB9DU+13CEU+AB9EU+13CFU+AB9F"
      \o "U+13D0U+ABA0U+13D1U+ABA1U+13D2U+ABA2U+13D3U+ABA3U+13D4U+ABA4U+13D5U+ABA5"
      \o "U+13D6U+ABA6U+13D7U+ABA7U+13D8U+ABA8U+13D9U+ABA9U+13DAU+ABAAU+13DBU+ABAB"
      \o "U+13DCU+ABACU+13DDU+ABADU+13DEU+ABAEU+13DFU+ABAFU+13E0U+ABB0U+13E1U+ABB1"
      \o "U+13E2U+ABB2U+13E3U+ABB3U+13E4U+ABB4U+13E5U+ABB5U+13E6U+ABB6U+13E7U+ABB7"
      \o "U+13E8U+ABB8U+13E9U+ABB9U+13EAU+ABBAU+13EBU+ABBBU+13ECU+ABBCU+13EDU+ABBD"
      \o "U+13EEU+ABBEU+13EFU+ABBFU+13F0U+13F8U+13F1U+13F9U+13F2U+13FAU+13F3U+13FB"
      \o "U+13F4U+13FCU+13F5U+13FD"
    [] block = "U+1C" ->
      "U+1C90U+10D0U+1C91U+10D1U+1C92U+10D2U+1C93U+10D3U+1C94U+10D4U+1C95U+10D5"
      \o "U+1C96U+10D6U+1C97U+10D7U+1C98U+10D8U+1C99U+10D9U+1C9AU+10DAU+1C9BU+10DB"
      \o "U+1C9CU+10DCU+1C9DU+10DDU+1C9EU+10DEU+1C9FU+10DFU+1CA0U+10E0U+1CA1U+10E1"
      \o "U+1CA2U+10E2U+1CA3U+10E3U+1CA4U+10E4U+1CA5U+10E5U+1CA6U+10E6U+1CA7U+10E7"
      \o "U+1CA8U+10E8U+1CA9U+10E9U+1CAAU+10EAU+1CABU+10EBU+1CACU+10ECU+1CADU+10ED"
      \o "U+1CAEU+10EEU+1CAFU+10EFU+1CB0U+10F0U+1CB1U+10F1U+1CB2U+10F2U+1CB3U+10F3"
      \o "U+1CB4U+10F4U+1CB5U+10F5U+1CB6U+10F6U+1CB7U+10F7U+1CB8U+10F8U+1CB9U+10F9"
      \o "U+1CBAU+10FAU+1CBDU+10FDU+1CBEU+10FEU+1CBFU+10FF"
    [] block = "U+1E" ->
      "U+1E00U+1E01U+1E02U+1E03U+1E04U+1E05U+1E06U+1E07U+1E08U+1E09U+1E0AU+1E0B"
      \o "U+1E0CU+1E0DU+1E0EU+1E0FU+1E10U+1E11U+1E12U+1E13U+1E14U+1E15U+1E16U+1E17"
      \o "U+1E18U+1E19U+1E1AU+1E1BU+1E1CU+1E1DU+1E1EU+1E1FU+1E20U+1E21U+1E22U+1E23"
      \o "U+1E24U+1E25U+1E26U+1E27U+1E28U+1E29U+1E2AU+1E2BU+1E2CU+1E2DU+1E2EU+1E2F"
      \o "U+1E30U+1E31U+1E32U+1E33U+1E34U+1E35U+1E36U+1E37U+1E38U+1E39U+1E3AU+1E3B"
      \o "U+1E3CU+1E3DU+1E3EU+1E3FU+1E40U+1E41U+1E42U+1E43U+1E44U+1E45U+1E46U+1E47"
      \o "U+1E48U+1E49U+1E4AU+1E4BU+1E4CU+1E4DU+1E4EU+1E4FU+1E50U+1E51U+1E52U+1E53"
      \o "U+1E54U+1E55U+1E56U+1E57U+1E58U+1E59U+1E5AU+1E5BU+1E5CU+1E5DU+1E5EU+1E5F"
      \o "U+1E60U+1E61U+1E62U+1E63U+1E64U+1E65U+1E66U+1E67U+1E68U+1E69U+1E6AU+1E6B"
      \o "U+1E6CU+1E6DU+1E6EU+1E6FU+1E70U+1E71U+1E72U+1E73U+1E74U+1E75U+1E76U+1E77"
      \o "U+1E78U+1E79U+1E7AU+1E7BU+1E7CU+1E7DU+1E7EU+1E7FU+1E80U+1E81U+1E82U+1E83"
      \o "U+1E84U+1E85U+1E86U+1E87U+1E88U+1E89U+1E8AU+1E8BU+1E8CU+1E8DU+1E8EU+1E8F"
      \o "U+1E90U+1E91U+1E92U+1E93U+1E94U+1E95U+1E9EU+00DFU+1EA0U+1EA1U+1EA2U+1EA3"
      \o "U+1EA4U+1EA5U+1EA6U+1EA7U+1EA8U+1EA9U+1EAAU+1EABU+1EACU+1EADU+1EAEU+1EAF"
      \o "U+1EB0U+1EB1U+1EB2U+1EB3U+1EB4U+1EB5U+1EB6U+1EB7U+1EB8U+1EB9U+1EBAU+1EBB"
      \o "U+1EBCU+1EBDU+1EBEU+1EBFU+1EC0U+1EC1U+1EC2U+1EC3U+1EC4U+1EC5U+1EC6U+1EC7"
      \o "U+1EC8U+1EC9U+1ECAU+1ECBU+1ECCU+1ECDU+1ECEU+1ECFU+1ED0U+1ED1U+1ED2U+1ED3"
      \o "U+1ED4U+1ED5U+1ED6U+1ED7U+1ED8U+1ED9U+1EDAU+1EDBU+1EDCU+1EDDU+1EDEU+1EDF"
      \o "U+1EE0U+1EE1U+1EE2U+1EE3U+1EE4U+1EE5U+1EE6U+1EE7U+1EE8U+1EE9U+1EEAU+1EEB"
      \o "U+1EECU+1EEDU+1EEEU+1EEFU+1EF0U+1EF1U+1EF2U+1EF3U+1EF4U+1EF5U+1EF6U+1EF7"
      \o "U+1EF8U+1EF9U+1EFAU+1EFBU+1EFCU+1EFDU+1EFEU+1EFF"
    [] block = "U+1F" ->
      "U+1F08U+1F00U+1F09U+1F01U+1F0AU+1F02U+1F0BU+1F03U+1F0CU+1F04U+1F0DU+1F05"
      \o "U+1F0EU+1F06U+1F0FU+1F07U+1F18U+1F10U+1F19U+1F11U+1F1AU+1F12U+1F1BU+1F13"
      \o "U+1F1CU+1F14U+1F1DU+1F15U+1F28U+1F20U+1F29U+1F21U+1F2AU+1F22U+1F2BU+1F23"
      \o "U+1F2CU+1F24U+1F2DU+1F25U+1F2EU+1F26U+1F2FU+1F27U+1F38U+1F30U+1F39U+1F31"
      \o "U+1F3AU+1F32U+1F3BU+1F33U+1F3CU+1F34U+1F3DU+1F35U+1F3EU+1F36U+1F3FU+1F37"
      \o "U+1F48U+1F40U+1F49U+1F41U+1F4AU+1F42U+1F4BU+1F43U+1F4CU+1F44U+1F4DU+1F45"
      \o "U+1F59U+1F51U+1F5BU+1F53U+1F5DU+1F55U+1F5FU+1F57U+1F68U+1F60U+1F69U+1F61"
      \o "U+1F6AU+1F62U+1F6BU+1F63U+1F6CU+1F64U+1F6DU+1F65U+1F6EU+1F66U+1F6FU+1F67"
      \o "U+1F88U+1F80U+1F89U+1F81U+1F8AU+1F82U+1F8BU+1F83U+1F8CU+1F84U+1F8DU+1F85"
      \o "U+1F8EU+1F86U+1F8FU+1F87U+1F98U+1F90U+1F99U+1F91U+1F9AU+1F92U+1F9BU+1F93"
      \o "U+1F9CU+1F94U+1F9DU+1F95U+1F9EU+1F96U+1F9FU+1F97U+1FA8U+1FA0U+1FA9U+1FA1"
      \o "U+1FAAU+1FA2U+1FABU+1FA3U+1FACU+1FA4U+1FADU+1FA5U+1FAEU+1FA6U+1FAFU+1FA7"
      \o "U+1FB8U+1FB0U+1FB9U+1FB1U+1FBAU+1F70U+1FBBU+1F71U+1FBCU+1FB3U+1FC8U+1F72"
      \o "U+1FC9U+1F73U+1FCAU+1F74U+1FCBU+1F75U+1FCCU+1FC3U+1FD8U+1FD0U+1FD9U+1FD1"
      \o "U+1FDAU+1F76U+1FDBU+1F77U+1FE8U+1FE0U+1FE9U+1FE1U+1FEAU+1F7AU+1FEBU+1F7B"
      \o "U+1FECU+1FE5U+1FF8U+1F78U+1FF9U+1F79U+1FFAU+1F7CU+1FFBU+1F7DU+1FFCU+1FF3"
    [] block = "U+21" ->
      "U+2126U+03C9U+212BU+00E5U+2132U+214EU+2160U+2170U+2161U+2171U+2162U+2172"
      \o "U+2163U+2173U+2164U+2174U+2165U+2175U+2166U+2176U+2167U+2177U+2168U+2178"
      \o "U+2169U+2179U+216AU+217AU+216BU+217BU+216CU+217CU+216DU+217DU+216EU+217E"
      \o "U+216FU+217FU+2183U+2184"
    [] block = "U+24" ->
      "U+24B6U+24D0U+24B7U+24D1U+24B8U+24D2U+24B9U+24D3U+24BAU+24D4U+24BBU+24D5"
      \o "U+24BCU+24D6U+24BDU+24D7U+24BEU+24D8U+24BFU+24D9U+24C0U+24DAU+24C1U+24DB"
      \o "U+24C2U+24DCU+24C3U+24DDU+24C4U+24DEU+24C5U+24DFU+24C6U+24E0U+24C7U+24E1"
      \o "U+24C8U+24E2U+24C9U+24E3U+24CAU+24E4U+24CBU+24E5U+24CCU+24E6U+24CDU+24E7"
      \o "U+24CEU+24E8U+24CFU+24E9"
    [] block = "U+2C" ->
      "U+2C00U+2C30U+2C01U+2C31U+2C02U+2C32U+2C03U+2C33U+2C04U+2C34U+2C05U+2C35"
      \o "U+2C06U+2C36U+2C07U+2C37U+2C08U+2C38U+2C09U+2C39U+2C0AU+2C3AU+2C0BU+2C3B"
      \o "U+2C0CU+2C3CU+2C0DU+2C3DU+2C0EU+2C3EU+2C0FU+2C3FU+2C10U+2C40U+2C11U+2C41"
      \o "U+2C12U+2C42U+2C13U+2C43U+2C14U+2C44U+2C15U+2C45U+2C16U+2C46U+2C17U+2C47"
      \o "U+2C18U+2C48U+2C19U+2C49U+2C1AU+2C4AU+2C1BU+2C4BU+2C1CU+2C4CU+2C1DU+2C4D"
      \o "U+2C1EU+2C4EU+2C1FU+2C4FU+2C20U+2C50U+2C21U+2C51U+2C22U+2C52U+2C23U+2C53"
      \o "U+2C24U+2C54U+2C25U+2C55U+2C26U+2C56U+2C27U+2C57U+2C28U+2C58U+2C29U+2C59"
      \o "U+2C2AU+2C5AU+2C2BU+2C5BU+2C2CU+2C5CU+2C2DU+2C5DU+2C2EU+2C5EU+2C2FU+2C5F"
      \o "U+2C60U+2C61U+2C62U+026BU+2C63U+1D7DU+2C64U+027DU+2C67U+2C68U+2C69U+2C6A"
      \o "U+2C6BU+2C6CU+2C6DU+0251U+2C6EU+0271U+2C6FU+0250U+2C70U+0252U+2C72U+2C73"
      \o "U+2C75U+2C76U+2C7EU+023FU+2C7FU+0240U+2C80U+2C81U+2C82U+2C83U+2C84U+2C85"
      \o "U+2C86U+2C87U+2C88U+2C89U+2C8AU+2C8BU+2C8CU+2C8DU+2C8EU+2C8FU+2C90U+2C91"
      \o "U+2C92U+2C93U+2C94U+2C95U+2C96U+2C97U+2C98U+2C99U+2C9AU+2C9BU+2C9CU+2C9D"
      \o "U+2C9EU+2C9FU+2CA0U+2CA1U+2CA2U+2CA3U+2CA4U+2CA5U+2CA6U+2CA7U+2CA8U+2CA9"
      \o "U+2CAAU+2CABU+2CACU+2CADU+2CAEU+2CAFU+2CB0U+2CB1U+2CB2U+2CB3U+2CB4U+2CB5"
      \o "U+2CB6U+2CB7U+2CB8U+2CB9U+2CBAU+2CBBU+2CBCU+2CBDU+2CBEU+2CBFU+2CC0U+2CC1"
      \o "U+2CC2U+2CC3U+2CC4U+2CC5U+2CC6U+2CC7U+2CC8U+2CC9U+2CCAU+2CCBU+2CCCU+2CCD"
      \o "U+2CCEU+2CCFU+2CD0U+2CD1U+2CD2U+2CD3U+2CD4U+2CD5U+2CD6U+2CD7U+2CD8U+2CD9"
      \o "U+2CDAU+2CDBU+2CDCU+2CDDU+2CDEU+2CDFU+2CE0U+2CE1U+2CE2U+2CE3U+2CEBU+2CEC"
      \o "U+2CEDU+2CEEU+2CF2U+2CF3"
    [] block = "U+A6" ->
      "U+A640U+A641U+A642U+A643U+A644U+A645U+A646U+A647U+A648U+A649U+A64AU+A64B"
      \o "U+A64CU+A64DU+A64EU+A64FU+A650U+A651U+A652U+A653U+A654U+A655U+A656U+A657"
      \o "U+A658U+A659U+A65AU+A65BU+A65CU+A65DU+A65EU+A65FU+A660U+A661U+A662U+A663"
      \o "U+A664U+A665U+A666U+A667U+A668U+A669U+A66AU+A66BU+A66CU+A66DU+A680U+A681"
      \o "U+A682U+A683U+A684U+A685U+A686U+A687U+A688U+A689U+A68AU+A68BU+A68CU+A68D"
      \o "U+A68EU+A68FU+A690U+A691U+A692U+A693U+A694U+A695U+A696U+A697U+A698U+A699"
      \o "U+A69AU+A69B"
    [] block = "U+A7" ->
      "U+A722U+A723U+A724U+A725U+A726U+A727U+A728U+A729U+A72AU+A72BU+A72CU+A72D"
      \o "U+A72EU+A72FU+A732U+A733U+A734U+A735U+A736U+A737U+A738U+A739U+A73AU+A73B"
      \o "U+A73CU+A73DU+A73EU+A73FU+A740U+A741U+A742U+A743U+A744U+A745U+A746U+A747"
      \o "U+A748U+A749U+A74AU+A74BU+A74CU+A74DU+A74EU+A74FU+A750U+A751U+A752U+A753"
      \o "U+A754U+A755U+A756U+A757U+A758U+A759U+A75AU+A75BU+A75CU+A75DU+A75EU+A75F"
      \o "U+A760U+A761U+A762U+A763U+A764U+A765U+A766U+A767U+A768U+A769U+A76AU+A76B"
      \o "U+A76CU+A76DU+A76EU+A76FU+A779U+A77AU+A77BU+A77CU+A77DU+1D79U+A77EU+A77F"
      \o "U+A780U+A781U+A782U+A783U+A784U+A785U+A786U+A787U+A78BU+A78CU+A78DU+0265"
      \o "U+A790U+A791U+A792U+A793U+A796U+A797U+A798U+A799U+A79AU+A79BU+A79CU+A79D"
      \o "U+A79EU+A79FU+A7A0U+A7A1U+A7A2U+A7A3U+A7A4U+A7A5U+A7A6U+A7A7U+A7A8U+A7A9"
      \o "U+A7AAU+0266U+A7ABU+025CU+A7ACU+0261U+A7ADU+026CU+A7AEU+026AU+A7B0U+029E"
      \o "U+A7B1U+0287U+A7B2U+029DU+A7B3U+AB53U+A7B4U+A7B5U+A7B6U+A7B7U+A7B8U+A7B9"
      \o "U+A7BAU+A7BBU+A7BCU+A7BDU+A7BEU+A7BFU+A7C0U+A7C1U+A7C2U+A7C3U+A7C4U+A794"
      \o "U+A7C5U+0282U+A7C6U+1D8EU+A7C7U+A7C8U+A7C9U+A7CAU+A7D0U+A7D1U+A7D6U+A7D7"
      \o "U+A7D8U+A7D9U+A7F5U+A7F6"
    [] block = "U+FF" ->
      "U+FF21U+FF41U+FF22U+FF42U+FF23U+FF43U+FF24U+FF44U+FF25U+FF45U+FF26U+FF46"
      \o "U+FF27U+FF47U+FF28U+FF48U+FF29U+FF49U+FF2AU+FF4AU+FF2BU+FF4BU+FF2CU+FF4C"
      \o "U+FF2DU+FF4DU+FF2EU+FF4EU+FF2FU+FF4FU+FF30U+FF50U+FF31U+FF51U+FF32U+FF52"
      \o "U+FF33U+FF53U+FF34U+FF54U+FF35U+FF55U+FF36U+FF56U+FF37U+FF57U+FF38U+FF58"
      \o "U+FF39U+FF59U+FF3AU+FF5A"
    [] block = "U+104" ->
      "U+10400U+10428U+10401U+10429U+10402U+1042AU+10403U+1042BU+10404U+1042CU+10405U+1042D"
      \o "U+10406U+1042EU+10407U+1042FU+10408U+10430U+10409U+10431U+1040AU+10432U+1040BU+10433"
      \o "U+1040CU+10434U+1040DU+10435U+1040EU+10436U+1040FU+10437U+10410U+10438U+10411U+10439"
      \o "U+10412U+1043AU+10413U+1043BU+10414U+1043CU+10415U+1043DU+10416U+1043EU+10417U+1043F"
      \o "U+10418U+10440U+10419U+10441U+1041AU+10442U+1041BU+10443U+1041CU+10444U+1041DU+10445"
      \o "U+1041EU+10446U+1041FU+10447U+10420U+10448U+10421U+10449U+10422U+1044AU+10423U+1044B"
      \o "U+10424U+1044CU+10425U+1044DU+10426U+1044EU+10427U+1044FU+104B0U+104D8U+104B1U+104D9"
      \o "U+104B2U+104DAU+104B3U+104DBU+104B4U+104DCU+104B5U+104DDU+104B6U+104DEU+104B7U+104DF"
      \o "U+104B8U+104E0U+104B9U+104E1U+104BAU+104E2U+104BBU+104E3U+104BCU+104E4U+104BDU+104E5"
      \o "U+104BEU+104E6U+104BFU+104E7U+104C0U+104E8U+104C1U+104E9U+104C2U+104EAU+104C3U+104EB"
      \o "U+104C4U+104ECU+104C5U+104EDU+104C6U+104EEU+104C7U+104EFU+104C8U+104F0U+104C9U+104F1"
      \o "U+104CAU+104F2U+104CBU+104F3U+104CCU+104F4U+104CDU+104F5U+104CEU+104F6U+104CFU+104F7"
      \o "U+104D0U+104F8U+104D1U+104F9U+104D2U+104FAU+104D3U+104FB"
    [] block = "U+105" ->
      "U+10570U+10597U+10571U+10598U+10572U+10599U+10573U+1059AU+10574U+1059BU+10575U+1059C"
      \o "U+10576U+1059DU+10577U+1059EU+10578U+1059FU+10579U+105A0U+1057AU+105A1U+1057CU+105A3"
      \o "U+1057DU+105A4U+1057EU+105A5U+1057FU+105A6U+10580U+105A7U+10581U+105A8U+10582U+105A9"
      \o "U+10583U+105AAU+10584U+105ABU+10585U+105ACU+10586U+105ADU+10587U+105AEU+10588U+105AF"
      \o "U+10589U+105B0U+1058AU+105B1U+1058CU+105B3U+1058DU+105B4U+1058EU+105B5U+1058FU+105B6"
      \o "U+10590U+105B7U+10591U+105B8U+10592U+105B9U+10594U+105BBU+10595U+105BC"
    [] block = "U+10C" ->
      "U+10C80U+10CC0U+10C81U+10CC1U+10C82U+10CC2U+10C83U+10CC3U+10C84U+10CC4U+10C85U+10CC5"
      \o "U+10C86U+10CC6U+10C87U+10CC7U+10C88U+10CC8U+10C89U+10CC9U+10C8AU+10CCAU+10C8BU+10CCB"
      \o "U+10C8CU+10CCCU+10C8DU+10CCDU+10C8EU+10CCEU+10C8FU+10CCFU+10C90U+10CD0U+10C91U+10CD1"
      \o "U+10C92U+10CD2U+10C93U+10CD3U+10C94U+10CD4U+10C95U+10CD5U+10C96U+10CD6U+10C97U+10CD7"
      \o "U+10C98U+10CD8U+10C99U+10CD9U+10C9AU+10CDAU+10C9BU+10CDBU+10C9CU+10CDCU+10C9DU+10CDD"
      \o "U+10C9EU+10CDEU+10C9FU+10CDFU+10CA0U+10CE0U+10CA1U+10CE1U+10CA2U+10CE2U+10CA3U+10CE3"
      \o "U+10CA4U+10CE4U+10CA5U+10CE5U+10CA6U+10CE6U+10CA7U+10CE7U+10CA8U+10CE8U+10CA9U+10CE9"
      \o "U+10CAAU+10CEAU+10CABU+10CEBU+10CACU+10CECU+10CADU+10CEDU+10CAEU+10CEEU+10CAFU+10CEF"
      \o "U+10CB0U+10CF0U+10CB1U+10CF1U+10CB2U+10CF2"
    [] block = "U+118" ->
      "U+118A0U+118C0U+118A1U+118C1U+118A2U+118C2U+118A3U+118C3U+118A4U+118C4U+118A5U+118C5"
      \o "U+118A6U+118C6U+118A7U+118C7U+118A8U+118C8U+118A9U+118C9U+118AAU+118CAU+118ABU+118CB"
      \o "U+118ACU+118CCU+118ADU+118CDU+118AEU+118CEU+118AFU+118CFU+118B0U+118D0U+118B1U+118D1"
      \o "U+118B2U+118D2U+118B3U+118D3U+118B4U+118D4U+118B5U+118D5U+118B6U+118D6U+118B7U+118D7"
      \o "U+118B8U+118D8U+118B9U+118D9U+118BAU+118DAU+118BBU+118DBU+118BCU+118DCU+118BDU+118DD"
      \o "U+118BEU+118DEU+118BFU+118DF"
    [] block = "U+16E" ->
      "U+16E40U+16E60U+16E41U+16E61U+16E42U+16E62U+16E43U+16E63U+16E44U+16E64U+16E45U+16E65"
      \o "U+16E46U+16E66U+16E47U+16E67U+16E48U+16E68U+16E49U+16E69U+16E4AU+16E6AU+16E4BU+16E6B"
      \o "U+16E4CU+16E6CU+16E4DU+16E6DU+16E4EU+16E6EU+16E4FU+16E6FU+16E50U+16E70U+16E51U+16E71"
      \o "U+16E52U+16E72U+16E53U+16E73U+16E54U+16E74U+16E55U+16E75U+16E56U+16E76U+16E57U+16E77"
      \o "U+16E58U+16E78U+16E59U+16E79U+16E5AU+16E7AU+16E5BU+16E7BU+16E5CU+16E7CU+16E5DU+16E7D"
      \o "U+16E5EU+16E7EU+16E5FU+16E7F"
    [] block = "U+1E9" ->
      "U+1E900U+1E922U+1E901U+1E923U+1E902U+1E924U+1E903U+1E925U+1E904U+1E926U+1E905U+1E927"
      \o "U+1E906U+1E928U+1E907U+1E929U+1E908U+1E92AU+1E909U+1E92BU+1E90AU+1E92CU+1E90BU+1E92D"
      \o "U+1E90CU+1E92EU+1E90DU+1E92FU+1E90EU+1E930U+1E90FU+1E931U+1E910U+1E932U+1E911U+1E933"
      \o "U+1E912U+1E934U+1E913U+1E935U+1E914U+1E936U+1E915U+1E937U+1E916U+1E938U+1E917U+1E939"
      \o "U+1E918U+1E93AU+1E919U+1E93BU+1E91AU+1E93CU+1E91BU+1E93DU+1E91CU+1E93EU+1E91DU+1E93F"
      \o "U+1E91EU+1E940U+1E91FU+1E941U+1E920U+1E942U+1E921U+1E943"
    [] OTHER -> ""

\* the entry of rune c in a table of entries of two runes of width chars each
RECURSIVE LowerIn(_, _, _, _)
LowerIn(table, width, c, at) ==
  IF at > Len(table) THEN c
  ELSE IF SubSeq(table, at, at + width - 1) = c
         THEN SubSeq(table, at + width, at + 2 * width - 1)
         ELSE LowerIn(table, width, c, at + 2 * width)

LowerOf(c) ==
  CASE c = "A" -> "a" [] c = "B" -> "b" [] c = "C" -> "c" [] c = "D" -> "d"
    [] c = "E" -> "e" [] c = "F" -> "f" [] c = "G" -> "g" [] c = "H" -> "h"
    [] c = "I" -> "i" [] c = "J" -> "j" [] c = "K" -> "k" [] c = "L" -> "l"
    [] c = "M" -> "m" [] c = "N" -> "n" [] c = "O" -> "o" [] c = "P" -> "p"
    [] c = "Q" -> "q" [] c = "R" -> "r" [] c = "S" -> "s" [] c = "T" -> "t"
    [] c = "U" -> "u" [] c = "V" -> "v" [] c = "W" -> "w" [] c = "X" -> "x"
    [] c = "Y" -> "y" [] c = "Z" -> "z"
    [] c = "U+0130" -> "i" [] c = "U+212A" -> "k"
    [] OTHER -> IF Len(c) = 1 THEN c
                ELSE LowerIn(LowerTable(SubSeq(c, 1, Len(c) - 2)), Len(c), c, 1)

\* the runes above ASCII that unicode.IsSpace takes for white space: U+0085 and U+00A0
\* in Latin-1, and the runes with the White_Space property above it
NelChar == "U+0085"

NoBreakSpace == "U+00A0"

EmSpace == "U+2003"

IdeographicSpace == "U+3000"

UnicodeSpaces ==
  {NelChar, NoBreakSpace, "U+1680", "U+2000", "U+2001", "U+2002", EmSpace, "U+2004",
   "U+2005", "U+2006", "U+2007", "U+2008", "U+2009", "U+200A", "U+2028", "U+2029",
   "U+202F", "U+205F", IdeographicSpace}

\* the vertical tabulation \v
VerticalTab == ""

\* strings.TrimSpace cuts the runes of unicode.IsSpace: \t, \n, \v, \f, \r, space and
\* the white space above ASCII
IsSpace(c) == c \in {" ", "\t", "\n", VerticalTab, "\f", "\r"} \cup UnicodeSpaces

RECURSIVE TrimLeft(_)
TrimLeft(str) == IF str # <<>> /\ IsSpace(Head(str)) THEN TrimLeft(Tail(str)) ELSE str

RECURSIVE TrimRight(_)
TrimRight(str) ==
  IF str # <<>> /\ IsSpace(str[Len(str)]) THEN TrimRight(SubSeq(str, 1, Len(str) - 1)) ELSE str

TrimSpace(str) == TrimRight(TrimLeft(str))

TrimPrefix(str, prefix) ==
  IF Len(str) >= Len(prefix) /\ SubSeq(str, 1, Len(prefix)) = prefix
    THEN SubSeq(str, Len(prefix) + 1, Len(str))
    ELSE str

HasDoubleSpace(str) == \E i \in 1..(Len(str) - 1) : str[i] = " " /\ str[i + 1] = " "

\* strings.ReplaceAll(s, "  ", " "): one left-to-right pass over non-overlapping pairs
RECURSIVE ReplaceDoubleSpace(_)
ReplaceDoubleSpace(str) ==
  IF Len(str) < 2 THEN str
  ELSE IF str[1] = " " /\ str[2] = " "
    THEN <<" ">> \o ReplaceDoubleSpace(SubSeq(str, 3, Len(str)))
    ELSE <<str[1]>> \o ReplaceDoubleSpace(Tail(str))

RECURSIVE CollapseSpaces(_)
CollapseSpaces(str) ==
  IF HasDoubleSpace(str) THEN CollapseSpaces(ReplaceDoubleSpace(str)) ELSE str

RECURSIVE StringOf(_)
StringOf(str) == IF str = <<>> THEN "" ELSE Head(str) \o StringOf(Tail(str))

\* dynamic_decoder.go:159-168  the normalised type name, as a string
normalizeDynamicType(raw) ==
  LET trimmed == TrimSpace(raw)
      lowered == [i \in 1..Len(trimmed) |-> LowerOf(trimmed[i])]
      spaced == [i \in 1..Len(lowered) |-> IF lowered[i] = "\t" THEN " " ELSE lowered[i]]
      single == CollapseSpaces(spaced)
      noConst == TrimPrefix(single, <<"c", "o", "n", "s", "t", " ">>)
      noVolatile == TrimPrefix(noConst, <<"v", "o", "l", "a", "t", "i", "l", "e", " ">>)
  IN StringOf(TrimSpace(noVolatile))

\* dynamic_decoder.go:140-157
dynamicTypeSize(ctype) ==
  CASE ctype = "float" -> 4
    [] ctype = "double" -> 8
    [] ctype \in {"int8_t", "uint8_t", "bool", "_bool"} -> 1
    [] ctype \in {"int16_t", "uint16_t"} -> 2
    [] ctype \in {"int32_t", "uint32_t"} -> 4
    [] ctype \in {"int64_t", "uint64_t"} -> 8
    [] OTHER -> 0

\* binary.LittleEndian.Uint32 / Uint64 of up to eight bytes, as limbs (zero-extended)
ByteOrZero(data, i) == IF i <= Len(data) THEN data[i] ELSE 0

LimbsOf(data) ==
  [k \in 1..4 |-> ByteOrZero(data, 2 * k - 1) + 256 * ByteOrZero(data, 2 * k)]

\* int32(u) of a 32-bit u given as limbs: the top bit is the sign
Int32Of(limbs) ==
  IF limbs[2] >= Limb \div 2 THEN limbs[1] + Limb * (limbs[2] - Limb)
  ELSE limbs[1] + Limb * limbs[2]

\* dynamic_decoder.go:111-138  values of up to 16 bits and int32 are numbers; uint32 and
\* int64 are 64-bit two's complement limbs, uint64 unsigned limbs; floats are kept as
\* their IEEE-754 bit pattern
decodeDynamicValue(ctype, data) ==
  CASE ctype = "float" -> [err |-> FALSE, value |-> [bits32 |-> LimbsOf(data)]]
    [] ctype = "double" -> [err |-> FALSE, value |-> [bits64 |-> LimbsOf(data)]]
    [] ctype = "int8_t" -> [err |-> FALSE, value |-> Signed(data[1], 8)]
    [] ctype = "uint8_t" -> [err |-> FALSE, value |-> data[1]]
    [] ctype = "int16_t" -> [err |-> FALSE, value |-> Signed(LittleEndian(data), 16)]
    [] ctype = "uint16_t" -> [err |-> FALSE, value |-> LittleEndian(data)]
    [] ctype = "int32_t" -> [err |-> FALSE, value |-> Int32Of(LimbsOf(data))]
    [] ctype = "uint32_t" -> [err |-> FALSE, value |-> LimbsOf(data)]
    [] ctype = "int64_t" -> [err |-> FALSE, value |-> LimbsOf(data)]
    [] ctype = "uint64_t" -> [err |-> FALSE, value |-> [uint64 |-> LimbsOf(data)]]
    [] ctype \in {"bool", "_bool"} -> [err |-> FALSE, value |-> (data[1] # 0)]
    [] OTHER -> [err |-> TRUE, value |-> 0]

\* dynamic_decoder.go:111-138  the Go type of the value decodeDynamicValue returns for
\* a ctype: what the interface value in the map carries besides its bits
GoTypeOf(ctype) ==
  CASE ctype = "float" -> "float32"
    [] ctype = "double" -> "float64"
    [] ctype = "int8_t" -> "int8"
    [] ctype = "uint8_t" -> "uint8"
    [] ctype = "int16_t" -> "int16"
    [] ctype = "uint16_t" -> "uint16"
    [] ctype = "int32_t" -> "int32"
    [] ctype = "uint32_t" -> "uint32"
    [] ctype = "int64_t" -> "int64"
    [] ctype = "uint64_t" -> "uint64"
    [] OTHER -> "bool"

\* dynamic_decoder.go:55-74  the field loop of RegisterDynamic: [err, fields]
RECURSIVE normalizeFields(_, _, _)
normalizeFields(fields, byteSize, acc) ==
  IF fields = <<>> THEN [err |-> FALSE, fields |-> acc]
  ELSE LET field == Head(fields)
           ctype == normalizeDynamicType(field.CType)
           size == dynamicTypeSize(ctype)
       IN IF size = 0 THEN [err |-> TRUE, fields |-> <<>>]
          ELSE IF field.Size # IntOf(size) THEN [err |-> TRUE, fields |-> <<>>]
          ELSE IF IntIsNeg(field.Offset) THEN [err |-> TRUE, fields |-> <<>>]
          ELSE IF IntLess(byteSize, IntAdd(field.Offset, field.Size))
            THEN [err |-> TRUE, fields |-> <<>>]
          ELSE normalizeFields(Tail(fields), byteSize,
                               Append(acc, [Name |-> field.Name, CType |-> ctype,
                                            Offset |-> field.Offset, Size |-> field.Size]))

\* dynamic_decoder.go:38-74  the validation of RegisterDynamic: [err, def]
normalizeDef(id, def) ==
  IF ~IntLess(IntOf(0), def.ByteSize) THEN [err |-> TRUE, def |-> <<>>]
  ELSE IF Len(def.Fields) = 0 THEN [err |-> TRUE, def |-> <<>>]
  ELSE LET n == normalizeFields(def.Fields, def.ByteSize, <<>>)
       IN IF n.err THEN [err |-> TRUE, def |-> <<>>]
          ELSE [err |-> FALSE,
                def |-> [ID |-> id, ByteSize |-> def.ByteSize, Fields |-> n.fields]]

\* dynamic_decoder.go:77  dynamicRegistry[id] = normalized
StoreEntry(registry, id, entry) ==
  [i \in (DOMAIN registry) \cup {id} |-> IF i = id THEN entry ELSE registry[i]]

\* dynamic_decoder.go:37-80  RegisterDynamic on a registry: [err, registry]
RegisterDynamicIn(registry, id, def) ==
  LET n == normalizeDef(id, def)
  IN IF n.err THEN [err |-> TRUE, registry |-> registry]
     ELSE [err |-> FALSE, registry |-> StoreEntry(registry, id, n.def)]

\* dynamic_decoder.go:94-106  the field loop of parseDynamicPacket: [err, out, types,
\* panic]; out[field.Name] = value replaces what an earlier field of that name left, the
\* value's Go type with it; payload[start:end] panics unless 0 <= start <= end (end <=
\* len is tested before it)
RECURSIVE decodeFields(_, _, _, _)
decodeFields(fields, body, acc, types) ==
  IF fields = <<>> THEN [err |-> FALSE, out |-> acc, types |-> types, panic |-> FALSE]
  ELSE LET field == Head(fields)
           start == field.Offset
           end == IntAdd(start, field.Size)
       IN IF IntLess(IntOf(Len(body)), end)
            THEN [err |-> TRUE, out |-> <<>>, types |-> <<>>, panic |-> FALSE]
          ELSE IF IntIsNeg(start) \/ IntLess(end, start)
            THEN [err |-> FALSE, out |-> <<>>, types |-> <<>>, panic |-> TRUE]
          ELSE LET v == decodeDynamicValue(field.CType,
                                           SubSeq(body, NumOf(start) + 1, NumOf(end)))
               IN IF v.err THEN [err |-> TRUE, out |-> <<>>, types |-> <<>>, panic |-> FALSE]
                  ELSE decodeFields(Tail(fields), body,
                                    [n \in (DOMAIN acc) \cup {field.Name} |->
                                       IF n = field.Name THEN v.value ELSE acc[n]],
                                    [n \in (DOMAIN types) \cup {field.Name} |->
                                       IF n = field.Name THEN GoTypeOf(field.CType)
                                       ELSE types[n]])

\* dynamic_decoder.go:82-109  parseDynamicPacket on a registry: [found, err, out, types,
\* panic]
parseDynamicPacketIn(registry, id, body) ==
  IF id \notin DOMAIN registry
    THEN [found |-> FALSE, err |-> FALSE, out |-> <<>>, types |-> <<>>, panic |-> FALSE]
  ELSE LET def == registry[id] IN
    IF IntOf(Len(body)) # def.ByteSize
      THEN [found |-> TRUE, err |-> TRUE, out |-> <<>>, types |-> <<>>, panic |-> FALSE]
    ELSE LET r == decodeFields(def.Fields, body, <<>>, <<>>)
         IN [found |-> TRUE, err |-> r.err, out |-> r.out, types |-> r.types,
             panic |-> r.panic]

parseDynamicPacket(id, body) == parseDynamicPacketIn(dynamicRegistry, id, body)

\* text decoding: the bytes up to the first 0x00
TextOf(body) == IF FirstZero(body) = 0 THEN body ELSE SubSeq(body, 1, FirstZero(body) - 1)

\* protocol.ParsePacket: the text id wins, then a registered schema, else a raw record;
\* a panic of the schema decoder passes through it
ParsePacket(id, body) ==
  IF id = textID
    THEN [err |-> FALSE, data |-> [kind |-> "text", text |-> TextOf(body)], panic |-> FALSE]
  ELSE LET d == parseDynamicPacket(id, body) IN
    IF d.found
      THEN IF d.err \/ d.panic THEN [err |-> d.err, data |-> <<>>, panic |-> d.panic]
           ELSE [err |-> FALSE, data |-> [kind |-> "map", fields |-> d.out, types |-> d.types],
                 panic |-> FALSE]
      ELSE [err |-> FALSE, data |-> [kind |-> "raw", id |-> id, payload |-> body],
            panic |-> FALSE]

\* ------------------------------------------------------------- consumeFrames and JSONL sink
\* frames the framer can hand over: empty decode, raw id, schema id with a wrong and a
\* right body size, text id, truncated chunk
PipeFrames == {<<1>>, <<2, 2>>, <<2, 1>>, <<3, 1, 2>>, <<2, 3>>, <<3, 1>>}

SinkChan == 1

\* hex.EncodeToString: two lowercase digits per byte
HexDigit(n) ==
  CASE n = 0 -> "0" [] n = 1 -> "1" [] n = 2 -> "2" [] n = 3 -> "3" [] n = 4 -> "4"
    [] n = 5 -> "5" [] n = 6 -> "6" [] n = 7 -> "7" [] n = 8 -> "8" [] n = 9 -> "9"
    [] n = 10 -> "a" [] n = 11 -> "b" [] n = 12 -> "c" [] n = 13 -> "d" [] n = 14 -> "e"
    [] OTHER -> "f"

RECURSIVE EncodeToString(_)
EncodeToString(bytes) ==
  IF bytes = <<>> THEN <<>>
  ELSE <<HexDigit(Head(bytes) \div 16), HexDigit(Head(bytes) % 16)>> \o EncodeToString(Tail(bytes))

\* openocd_rtt_server.ps1:162-164
formatID(id) == <<"0", "x">> \o EncodeToString(<<id>>)

\* the instant a packet carries (main.go:276 sets it to the time of receipt)
TimestampOf(pkt) == IF "Timestamp" \in DOMAIN pkt THEN pkt.Timestamp ELSE 0

\* openocd_rtt_server.ps1:146-156  the jsonRecord Consume builds: Data is always the
\* packet's Data, Text is set for the text id when Data is a string
jsonRecord(pkt) ==
  [TS |-> TimestampOf(pkt), ID |-> formatID(pkt.ID), PayloadHex |-> EncodeToString(pkt.Payload),
   Data |-> pkt.Data,
   Text |-> IF pkt.ID = textID /\ pkt.Data.kind = "text" THEN pkt.Data.text ELSE <<>>]

\* float32 / float64 bit patterns with all exponent bits set: NaN and the infinities
IsNaNOrInf(value) ==
  IF "bits32" \in DOMAIN value THEN (value.bits32[2] \div 128) % 256 = 255
  ELSE (value.bits64[4] \div 16) % 2048 = 2047

\* the keys of a decoded struct whose value is a float32 or a float64: json.Marshal goes
\* by the value the map holds
FloatFields(data) == {n \in DOMAIN data.fields : data.types[n] \in {"float32", "float64"}}

\* json.Marshal of the record (openocd_rtt_server.ps1:118-124 gives the keys): ts, id and
\* payload_hex always, data unless Data is a nil interface, text unless Text is empty;
\* a NaN or infinite float in Data is an UnsupportedValueError
Marshal(rec) ==
  IF rec.Data.kind = "map" /\ \E n \in FloatFields(rec.Data) : IsNaNOrInf(rec.Data.fields[n])
    THEN [err |-> TRUE, line |-> <<>>]
  ELSE [err |-> FALSE,
        line |-> [k \in {"ts", "id", "payload_hex"}
                        \cup (IF rec.Data.kind = "nil" THEN {} ELSE {"data"})
                        \cup (IF rec.Text = <<>> THEN {} ELSE {"text"}) |->
                    CASE k = "ts" -> rec.TS
                      [] k = "id" -> rec.ID
                      [] k = "payload_hex" -> rec.PayloadHex
                      [] k = "data" -> rec.Data
                      [] OTHER -> rec.Text]]

\* openocd_rtt_server.ps1:157  j.enc.Encode(rec): json.Encoder returns its latched error
\* without marshalling; a marshal error writes nothing and is not latched; the error of
\* the writer's Write is latched. ok is the writer's answer when Write is called.
Encode(latched, rec, ok) ==
  IF latched THEN [out |-> <<>>, latched |-> TRUE, did |-> "latched"]
  ELSE LET m == Marshal(rec) IN
    IF m.err THEN [out |-> <<>>, latched |-> FALSE, did |-> "marshal"]
    ELSE IF ok THEN [out |-> <<m.line>>, latched |-> FALSE, did |-> "written"]
    ELSE [out |-> <<>>, latched |-> TRUE, did |-> "write"]

\* the packets of a configuration file that mock.go:381-420 (Validate) lets through:
\* one byte with a uint8_t field at offset 0, or at the largest offset an int holds
PipeDefs ==
  {[ByteSize |-> IntOf(1),
    Fields |-> <<[Name |-> "v", CType |-> <<"u", "i", "n", "t", "8", "_", "t">>,
                  Offset |-> offset, Size |-> IntOf(1)]>>] : offset \in {IntOf(0), MaxInt}}

\* main.go:76-80,96-108 (runServer): text id and the configured schema registered, hub
\* running, the sink subscribed with the default buffer, consumeFrames started
PipeInit ==
  /\ textID = 3
  /\ \E def \in PipeDefs : dynamicRegistry = RegisterDynamicIn(<<>>, 1, def).registry
  /\ cfPc = "select"
  /\ cfPacket = <<>>
  /\ sinkPc = "run"
  /\ written = <<>>
  /\ encErr = FALSE
  /\ sinkLog = <<>>
  /\ sinkPkt = <<>>
  /\ fed = 0
  /\ consumed = <<>>

\* the hub of runServer once hub.Subscribe() has returned the sink's channel
HubInitSubscribed ==
  /\ hubPc = "run"
  /\ broadcast = <<>>
  /\ clients = {SinkChan}
  /\ chCap = [c \in AllChans |-> IF c = SinkChan THEN BufferSize(0) ELSE 0]
  /\ chQueue = [c \in AllChans |-> <<>>]
  /\ chCloses = [c \in AllChans |-> 0]
  /\ subState = [c \in AllChans |-> IF c = SinkChan THEN "subscribed" ELSE "none"]
  /\ unregPending = [c \in AllChans |-> 0]
  /\ unsubCalls = 0
  /\ unregSeen = [c \in AllChans |-> 0]
  /\ pubPc = "off"
  /\ pubNext = 1
  /\ published = <<>>
  /\ received = [c \in AllChans |-> <<>>]
  /\ offerLog = [c \in AllChans |-> <<>>]
  /\ hubPkt = <<>>
  /\ hubTodo = {}

\* environment: the framer puts a frame on the frame queue (part_002:142-143)
FrameArrive(frame) ==
  /\ cfPc \notin {"off", "panic"}
  /\ fed < MaxFrames
  /\ Len(out) < OutCap
  /\ out' = Append(out, frame)
  /\ fed' = fed + 1
  /\ UNCHANGED <<cancelled, hubVars, lisConfig, lPc, attempt, wait, connOpen, framers, rbuf,
                 payload, reachable, peerOpen, wire, sent, sessBytes, emitted, dials,
                 framerStarts, failStreak, backoffAfter, prevWait, slept,
                 textID, dynamicRegistry, cfPc, cfPacket, sinkPc, written, lastRead, handled, protoVars, consumed, raceVars, bridgeVars, encErr, sinkLog, sinkPkt, fwVars>>

\* main.go:261-262  case <-ctx.Done(): return
CfCancel ==
  /\ cfPc = "select"
  /\ cancelled
  /\ cfPc' = "done"
  /\ UNCHANGED <<cancelled, hubVars, lisVars, textID, dynamicRegistry, cfPacket, sinkPc,
                 written, fed, protoVars, consumed, raceVars, bridgeVars, encErr, sinkLog, sinkPkt, fwVars>>

\* main.go:263-273  case frame := <-frames: decode and parse; a bad frame is skipped,
\* a good one goes to hub.Publish; a panic of ParsePacket is recovered nowhere: it ends
\* the process, and the hub actor and the sink with it
CfRecv ==
  /\ cfPc = "select"
  /\ out # <<>>
  /\ out' = Tail(out)
  /\ consumed' = Append(consumed, Head(out))
  /\ LET decoded == CobsDecode(Head(out)) IN
       IF decoded.err \/ Len(decoded.out) = 0
         THEN UNCHANGED <<cfPc, cfPacket, hubPc, sinkPc>>
         ELSE LET id == decoded.out[1]
                  body == Tail(decoded.out)
                  parsed == ParsePacket(id, body)
              IN IF parsed.panic
                   THEN /\ cfPc' = "panic" /\ hubPc' = "dead" /\ sinkPc' = "dead"
                        /\ UNCHANGED cfPacket
                 ELSE IF parsed.err
                   THEN UNCHANGED <<cfPc, cfPacket, hubPc, sinkPc>>
                   ELSE /\ cfPacket' = [ID |-> id, Payload |-> body, Data |-> parsed.data]
                        /\ cfPc' = "publish"
                        /\ UNCHANGED <<hubPc, sinkPc>>
  /\ UNCHANGED <<cancelled, hubPkt, hubTodo, broadcast, clients, chCap, chQueue, chCloses,
                 subState, unregPending, unsubCalls, unregSeen, pubPc, pubNext, published,
                 received, offerLog,
                 lisConfig, lPc, attempt, wait, connOpen, framers, rbuf,
                 payload, reachable, peerOpen, wire, sent, sessBytes, emitted, dials,
                 framerStarts, failStreak, backoffAfter, prevWait, slept,
                 textID, dynamicRegistry, written, fed, lastRead, handled, protoVars, raceVars, bridgeVars, encErr, sinkLog, sinkPkt, fwVars>>

\* main.go:274-279 with hub.go:92-94  hub.Publish returns once h.broadcast takes the packet
CfPublish ==
  /\ cfPc = "publish"
  /\ Publish(cfPacket)
  /\ cfPc' = "select"
  /\ cfPacket' = <<>>
  /\ UNCHANGED <<hubPkt, hubTodo, cancelled, hubPc, clients, chCap, chQueue, chCloses, subState,
                 unregPending, unsubCalls, unregSeen, pubPc, pubNext, received, offerLog,
                 lisVars, textID, dynamicRegistry, sinkPc, written, fed, protoVars, consumed, raceVars, bridgeVars, encErr, sinkLog, sinkPkt, fwVars>>

\* openocd_rtt_server.ps1:140-141  case <-ctx.Done(): return
SinkCancel ==
  /\ sinkPc = "run"
  /\ cancelled
  /\ sinkPc' = "done"
  /\ UNCHANGED <<cancelled, hubVars, lisVars, textID, dynamicRegistry, cfPc, cfPacket,
                 written, fed, protoVars, consumed, raceVars, bridgeVars, encErr, sinkLog, sinkPkt, fwVars>>

\* openocd_rtt_server.ps1:142  case pkt, ok := <-in with a packet in the channel
SinkRecv ==
  /\ sinkPc = "run"
  /\ chQueue[SinkChan] # <<>>
  /\ chQueue' = [chQueue EXCEPT ![SinkChan] = Tail(@)]
  /\ received' = [received EXCEPT ![SinkChan] = Append(@, Head(chQueue[SinkChan]))]
  /\ sinkPkt' = Head(chQueue[SinkChan])
  /\ sinkPc' = "encode"
  /\ UNCHANGED <<hubPkt, hubTodo, cancelled, hubPc, broadcast, clients, chCap, chCloses, subState,
                 unregPending, unsubCalls, unregSeen, pubPc, pubNext, published, offerLog,
                 lisVars, textID, dynamicRegistry, cfPc, cfPacket, written, encErr, sinkLog,
                 fed, protoVars, consumed, raceVars, bridgeVars, fwVars>>

\* a Consume that returns when Encode reports an error
SinkEncodeStopsOnError(ok) ==
  /\ sinkPc = "encode"
  /\ LET r == Encode(encErr, jsonRecord(sinkPkt), ok)
     IN /\ written' = written \o r.out
        /\ encErr' = r.latched
        /\ sinkLog' = Append(sinkLog, r.did)
        /\ sinkPc' = IF r.did = "written" THEN "run" ELSE "done"
  /\ sinkPkt' = <<>>
  /\ UNCHANGED <<cancelled, hubVars, lisVars, textID, dynamicRegistry, cfPc, cfPacket,
                 fed, protoVars, consumed, raceVars, bridgeVars, fwVars>>

\* openocd_rtt_server.ps1:146-157  the record of the packet is built and encoded; the
\* error Encode returns is ignored and the loop goes on
SinkEncode(ok) ==
  /\ sinkPc = "encode"
  /\ LET r == Encode(encErr, jsonRecord(sinkPkt), ok)
     IN /\ written' = written \o r.out
        /\ encErr' = r.latched
        /\ sinkLog' = Append(sinkLog, r.did)
  /\ sinkPkt' = <<>>
  /\ sinkPc' = "run"
  /\ UNCHANGED <<cancelled, hubVars, lisVars, textID, dynamicRegistry, cfPc, cfPacket,
                 fed, protoVars, consumed, raceVars, bridgeVars, fwVars>>

\* openocd_rtt_server.ps1:142-145  the channel is closed and drained: return
SinkClosed ==
  /\ sinkPc = "run"
  /\ chQueue[SinkChan] = <<>>
  /\ chCloses[SinkChan] > 0
  /\ sinkPc' = "done"
  /\ UNCHANGED <<cancelled, hubVars, lisVars, textID, dynamicRegistry, cfPc, cfPacket,
                 written, fed, protoVars, consumed, raceVars, bridgeVars, encErr, sinkLog, sinkPkt, fwVars>>

InitPipeline ==
  /\ cancelled = FALSE
  /\ HubInitSubscribed
  /\ LisOff
  /\ PipeInit
  /\ ProtoOff /\ RaceOff /\ BridgeOff /\ FwOff

NextPipeline ==
  \/ Cancel
  \/ \E frame \in PipeFrames : FrameArrive(frame)
  \/ CfCancel
  \/ CfRecv
  \/ CfPublish
  \/ HubCancel
  \/ HubBroadcast
  \/ \E c \in AllChans : HubOffer(c)
  \/ SinkCancel
  \/ SinkRecv
  \/ \E ok \in BOOLEAN : SinkEncode(ok)
  \/ SinkClosed

SpecPipeline == InitPipeline /\ [][NextPipeline]_vars

\* every task that can take a step eventually does: a select takes a ready case,
\* a send proceeds once the channel has room
FairSpecPipeline ==
  /\ SpecPipeline
  /\ WF_vars(CfCancel) /\ WF_vars(CfRecv) /\ WF_vars(CfPublish)
  /\ WF_vars(HubCancel) /\ WF_vars(HubBroadcast) /\ WF_vars(\E c \in AllChans : HubOffer(c))
  /\ WF_vars(SinkCancel) /\ WF_vars(SinkRecv) /\ WF_vars(\E ok \in BOOLEAN : SinkEncode(ok)) /\ WF_vars(SinkClosed)

\* ------------------------------------------------------------- JSONL sink alone
MaxSinkPackets == 3

\* the schemas the sink's records were decoded with: one float field; two fields of one
\* name over the same bytes, a float and then a uint8_t
SinkRegistry ==
  (1 :> [ID |-> 1, ByteSize |-> IntOf(4),
         Fields |-> <<[Name |-> "f", CType |-> "float", Offset |-> IntOf(0), Size |-> IntOf(4)]>>])
  @@ (4 :> [ID |-> 4, ByteSize |-> IntOf(4),
            Fields |-> <<[Name |-> "x", CType |-> "float", Offset |-> IntOf(0), Size |-> IntOf(4)],
                         [Name |-> "x", CType |-> "uint8_t", Offset |-> IntOf(0), Size |-> IntOf(1)]>>])

\* the map parseDynamicPacket makes of a body under these schemas
SinkData(id, body) ==
  LET d == parseDynamicPacketIn(SinkRegistry, id, body)
  IN [kind |-> "map", fields |-> d.out, types |-> d.types]

\* records a subscription delivers: the text "hi" (jsonl_test.go:32-37), an empty text,
\* a struct with the float 1.0, a struct with a NaN, a struct whose NaN bytes the map
\* holds as a uint8, a raw record of an unknown id
SinkPackets ==
  {[ID |-> 3, Timestamp |-> 1, Payload |-> <<104, 105>>,
    Data |-> [kind |-> "text", text |-> <<104, 105>>]],
   [ID |-> 3, Timestamp |-> 1, Payload |-> <<>>, Data |-> [kind |-> "text", text |-> <<>>]],
   [ID |-> 1, Timestamp |-> 1, Payload |-> <<0, 0, 128, 63>>,
    Data |-> SinkData(1, <<0, 0, 128, 63>>)],
   [ID |-> 1, Timestamp |-> 1, Payload |-> <<0, 0, 192, 127>>,
    Data |-> SinkData(1, <<0, 0, 192, 127>>)],
   [ID |-> 4, Timestamp |-> 1, Payload |-> <<0, 0, 192, 127>>,
    Data |-> SinkData(4, <<0, 0, 192, 127>>)],
   [ID |-> 2, Timestamp |-> 1, Payload |-> <<7>>,
    Data |-> [kind |-> "raw", id |-> 2, payload |-> <<7>>]]}

\* jsonl_test.go:17-29  a writer over a subscription of capacity 1, Consume running
InitSink ==
  /\ cancelled = FALSE
  /\ hubPc = "off"
  /\ broadcast = <<>>
  /\ clients = {}
  /\ chCap = [c \in AllChans |-> IF c = SinkChan THEN 1 ELSE 0]
  /\ chQueue = [c \in AllChans |-> <<>>]
  /\ chCloses = [c \in AllChans |-> 0]
  /\ subState = [c \in AllChans |-> "none"]
  /\ unregPending = [c \in AllChans |-> 0]
  /\ unsubCalls = 0
  /\ unregSeen = [c \in AllChans |-> 0]
  /\ pubPc = "off"
  /\ pubNext = 1
  /\ published = <<>>
  /\ received = [c \in AllChans |-> <<>>]
  /\ offerLog = [c \in AllChans |-> <<>>]
  /\ hubPkt = <<>>
  /\ hubTodo = {}
  /\ LisOff
  /\ textID = 3
  /\ dynamicRegistry = SinkRegistry
  /\ cfPc = "off"
  /\ cfPacket = <<>>
  /\ sinkPc = "run"
  /\ written = <<>>
  /\ encErr = FALSE
  /\ sinkLog = <<>>
  /\ sinkPkt = <<>>
  /\ fed = 0
  /\ consumed = <<>>
  /\ ProtoOff /\ RaceOff /\ BridgeOff /\ FwOff

\* jsonl_test.go:32-37  ch <- pkt: the subscription delivers a record
SinkDeliver(pkt) ==
  /\ sinkPc # "off"
  /\ chCloses[SinkChan] = 0
  /\ Len(chQueue[SinkChan]) < chCap[SinkChan]
  /\ fed < MaxSinkPackets
  /\ chQueue' = [chQueue EXCEPT ![SinkChan] = Append(@, pkt)]
  /\ published' = Append(published, pkt)
  /\ fed' = fed + 1
  /\ UNCHANGED <<hubPkt, hubTodo, cancelled, hubPc, broadcast, clients, chCap, chCloses, subState,
                 unregPending, unsubCalls, unregSeen, pubPc, pubNext, received, offerLog,
                 lisVars, textID, dynamicRegistry, cfPc, cfPacket, sinkPc, written, encErr,
                 sinkLog, sinkPkt, consumed, protoVars, raceVars, bridgeVars, fwVars>>

\* jsonl_test.go:38  close(ch)
SinkDeliverClose ==
  /\ sinkPc # "off"
  /\ chCloses[SinkChan] = 0
  /\ chCloses' = [chCloses EXCEPT ![SinkChan] = 1]
  /\ UNCHANGED <<hubPkt, hubTodo, cancelled, hubPc, broadcast, clients, chCap, chQueue, subState,
                 unregPending, unsubCalls, unregSeen, pubPc, pubNext, published, received,
                 offerLog, lisVars, pipeVars, protoVars, raceVars, bridgeVars, fwVars>>

NextSink ==
  \/ Cancel
  \/ \E pkt \in SinkPackets : SinkDeliver(pkt)
  \/ SinkDeliverClose
  \/ SinkCancel
  \/ SinkRecv
  \/ \E ok \in BOOLEAN : SinkEncode(ok)
  \/ SinkClosed

SpecSink == InitSink /\ [][NextSink]_vars

\* Consume's select takes a case that is ready
FairSpecSink ==
  /\ SpecSink
  /\ WF_vars(SinkCancel) /\ WF_vars(SinkRecv) /\ WF_vars(\E ok \in BOOLEAN : SinkEncode(ok)) /\ WF_vars(SinkClosed)

\* ------------------------------------------------------------- pipeline properties
\* the record consumeFrames makes of a frame; ok is FALSE for a frame that is
\* malformed, decodes to nothing or does not parse
RecordOf(frame) ==
  LET decoded == CobsDecode(frame) IN
    IF decoded.err \/ decoded.out = <<>> THEN [ok |-> FALSE, rec |-> <<>>]
    ELSE LET parsed == ParsePacket(Head(decoded.out), Tail(decoded.out)) IN
      IF parsed.err \/ parsed.panic THEN [ok |-> FALSE, rec |-> <<>>]
      ELSE [ok |-> TRUE, rec |-> [ID |-> Head(decoded.out), Payload |-> Tail(decoded.out),
                                  Data |-> parsed.data]]

\* the records of the good frames of a frame sequence, in order
RECURSIVE RecordsOf(_)
RecordsOf(frames) ==
  IF frames = <<>> THEN <<>>
  ELSE (IF RecordOf(Head(frames)).ok THEN <<RecordOf(Head(frames)).rec>> ELSE <<>>)
         \o RecordsOf(Tail(frames))

\* the records consumeFrames has passed to hub.Publish: those accepted and the one in flight
PassedToPublish == published \o (IF cfPc = "publish" THEN <<cfPacket>> ELSE <<>>)

\* C14: the records passed to the hub are exactly the records of the frames
\* that decode to at least one byte and parse, in arrival order; a bad frame yields no
\* record and does not end consumeFrames, which goes on until cancellation.
C14_GoodFramesPublishedInOrder ==
  /\ PassedToPublish = RecordsOf(consumed)
  /\ cfPc \in {"select", "publish"} \/ cancelled

\* C5: after the root cancellation fires, consumeFrames, the hub actor and
\* the JSONL sink each eventually return (or the process has ended under them).
C5_CancelEndsPipeline ==
  cancelled ~> (/\ cfPc \in {"done", "panic"}
                /\ hubPc \in {"done", "dead"}
                /\ sinkPc \in {"done", "dead"})

\* ------------------------------------------------------------- CobsDecode on its own
\* rat_cobs.c:144  the code of a full chunk, after which no zero is implied
FullCode == 255

\* all byte strings of length at most n over the values S
SeqsUpTo(S, n) == UNION {[1..k -> S] : k \in 0..n}

\* a chunk header c followed by n bytes of value 1
Run(c, n) == <<c>> \o [i \in 1..n |-> 1]

\* frames given to CobsDecode: every short frame, and frames that start with a chunk
\* of code 0xFE or 0xFF, complete or one byte short, followed by a short tail
CobsFrames ==
  SeqsUpTo(0..MaxCode, MaxFrameLen)
    \cup UNION {{Run(c, n) \o t : n \in {c - 2, c - 1}, t \in SeqsUpTo(0..MaxCode, 2)} :
                  c \in {FullCode - 1, FullCode}}

InitCobs ==
  /\ cancelled = FALSE
  /\ HubOff /\ LisOff /\ PipeOff /\ RaceOff /\ BridgeOff /\ FwOff
  /\ fnPc = "call"
  /\ fnIn \in CobsFrames
  /\ fnOut = <<>>

\* cobs_test.go:10,21  decoded, err := protocol.CobsDecode(frame)
CobsDecodeCall ==
  /\ fnPc = "call"
  /\ fnOut' = CobsDecode(fnIn)
  /\ fnPc' = "done"
  /\ UNCHANGED <<cancelled, hubVars, lisVars, pipeVars, fnIn, raceVars, bridgeVars, fwVars>>

NextCobs == CobsDecodeCall

SpecCobs == InitCobs /\ [][NextCobs]_vars

\* the chunks of a frame, read front to back: each is a code c and the c-1 bytes
\* after it; ok is FALSE when a code is 0x00 or fewer than c-1 bytes follow a code
RECURSIVE ChunksOf(_)
ChunksOf(frame) ==
  IF frame = <<>> THEN [ok |-> TRUE, chunks |-> <<>>]
  ELSE LET c == Head(frame) IN
    IF c = 0 \/ Len(frame) - 1 < c - 1 THEN [ok |-> FALSE, chunks |-> <<>>]
    ELSE LET rest == ChunksOf(SubSeq(frame, c + 1, Len(frame))) IN
      IF ~rest.ok THEN [ok |-> FALSE, chunks |-> <<>>]
      ELSE [ok |-> TRUE,
            chunks |-> <<[code |-> c, lits |-> SubSeq(frame, 2, c)]>> \o rest.chunks]

\* the literal bytes of chunks k.., a 0x00 after each chunk that is not a full chunk
\* and not the last one
RECURSIVE JoinChunks(_, _)
JoinChunks(chunks, k) ==
  IF k > Len(chunks) THEN <<>>
  ELSE chunks[k].lits
         \o (IF chunks[k].code # FullCode /\ k < Len(chunks) THEN <<0>> ELSE <<>>)
         \o JoinChunks(chunks, k + 1)

\* C12: CobsDecode fails with no output exactly when a code byte is 0x00 or
\* a chunk is truncated; otherwise it returns the chunks' literal bytes in order with
\* one 0x00 after every chunk that is neither a 0xFF chunk nor the last chunk.
C12_CobsDecodeChunks ==
  fnPc = "done" =>
    LET c == ChunksOf(fnIn) IN
      /\ fnOut.err = ~c.ok
      /\ fnOut.err => fnOut.out = <<>>
      /\ ~fnOut.err => fnOut.out = JoinChunks(c.chunks, 1)

C12_Witness ==
  /\ fnPc = "done" /\ ~fnOut.err
  /\ Len(fnIn) = FullCode + 2 /\ fnIn[1] = FullCode
  /\ Len(fnOut.out) = FullCode
  /\ fnOut.out[FullCode] = fnIn[Len(fnIn)]

\* ------------------------------------------------------------- firmware COBS encoder
\* part_019:23  RAT_RTT_UP_MAIN_SIZE
RingSize == 1024

\* rat_cobs.c:5-9  rat_cobs_max_encoded_length
rat_cobs_max_encoded_length(input_len) == input_len + ((input_len \div 254) + 1) + 1

\* rat_rtt.c:18-39  rat_rtt_ring_free
rat_rtt_ring_free(rb) ==
  LET used == IF rb.wr >= rb.rd THEN rb.wr - rb.rd ELSE rb.size - (rb.rd - rb.wr)
  IN IF rb.size = 0 THEN 0 ELSE rb.size - used - 1

\* rat_cobs.c:12-19  rat_cobs_begin: reserve the code byte of the first chunk
rat_cobs_begin(buf, size, wr) ==
  [buf |-> [buf EXCEPT ![wr] = 0], size |-> size, code_pos |-> wr,
   wr |-> (wr + 1) % size, code |-> 1, written |-> 1]

\* rat_cobs.c:23-31,50-56  store the code of the open chunk and open the next one
CloseChunk(st) ==
  LET b1 == [st.buf EXCEPT ![st.code_pos] = st.code]
  IN [st EXCEPT !.buf = [b1 EXCEPT ![st.wr] = 0], !.code_pos = st.wr,
                !.wr = (st.wr + 1) % st.size, !.code = 1, !.written = st.written + 1]

\* the encoder without the split of a chunk that has reached 254 literal bytes
rat_cobs_write_byte_NoSplit(st, byte) ==
  IF byte = 0 THEN CloseChunk(st)
  ELSE [st EXCEPT !.buf = [st.buf EXCEPT ![st.wr] = byte], !.wr = (st.wr + 1) % st.size,
                  !.code = (st.code + 1) % 256, !.written = st.written + 1]

\* rat_cobs.c:21-48  rat_cobs_write_byte; code is a uint8_t
rat_cobs_write_byte(st, byte) ==
  IF byte = 0 THEN CloseChunk(st)
  ELSE LET s1 == [st EXCEPT !.buf = [st.buf EXCEPT ![st.wr] = byte],
                            !.wr = (st.wr + 1) % st.size,
                            !.code = (st.code + 1) % 256, !.written = st.written + 1]
       IN IF s1.code = 255 THEN CloseChunk(s1) ELSE s1

\* rat_cobs.c:50-56  rat_cobs_finish: store the last code and the 0x00 delimiter
rat_cobs_finish(st) ==
  LET b1 == [st.buf EXCEPT ![st.code_pos] = st.code]
  IN [st EXCEPT !.buf = [b1 EXCEPT ![st.wr] = 0], !.wr = (st.wr + 1) % st.size,
                !.written = st.written + 1]

\* rat_rtt.c:95-98  the loop over the data bytes, first to last. The byte string is
\* halved and the encoder state is inspected first so that the evaluation stays
\* shallow; written is at least 1 after rat_cobs_begin, so the bytes are all written,
\* in order.
RECURSIVE WriteBytes(_, _)
WriteBytes(st, bytes) ==
  IF bytes = <<>> \/ st.written = 0 THEN st
  ELSE IF Len(bytes) = 1 THEN rat_cobs_write_byte(st, bytes[1])
  ELSE LET h == Len(bytes) \div 2
       IN WriteBytes(WriteBytes(st, SubSeq(bytes, 1, h)), SubSeq(bytes, h + 1, Len(bytes)))

\* rat_rtt.c:74-107  rat_rtt_write: [ret, rb] with rb the ring buffer afterwards
rat_rtt_write(rb, packet_id, data) ==
  LET needed == rat_cobs_max_encoded_length(Len(data) + 1) IN
    IF rb.size = 0 \/ rat_rtt_ring_free(rb) < needed THEN [ret |-> 0, rb |-> rb]
    ELSE LET st == rat_cobs_finish(
                     WriteBytes(rat_cobs_write_byte(rat_cobs_begin(rb.buf, rb.size, rb.wr),
                                                    packet_id), data))
         IN [ret |-> st.written, rb |-> [rb EXCEPT !.buf = st.buf, !.wr = st.wr]]

\* rat_rtt.c:43-46  memset(g_rtt_up_main, 0, ...): the buffer indices lo..hi, all zero
RECURSIVE ZeroBuffer(_, _)
ZeroBuffer(lo, hi) ==
  IF lo = hi THEN lo :> 0
  ELSE LET mid == (lo + hi) \div 2 IN ZeroBuffer(lo, mid) @@ ZeroBuffer(mid + 1, hi)

\* the n bytes a host reads from the ring starting at index from
RingRead(buf, size, from, n) == [i \in 1..n |-> buf[(from + i - 1) % size]]

\* packet bodies: every short body, and bodies of 252 to 254 non-zero bytes with a
\* short tail, which fill a chunk exactly or nearly
EmitBodies ==
  SeqsUpTo(0..MaxCode, MaxFrameLen - 1)
    \cup {[i \in 1..n |-> 1] \o t : n \in (FullCode - 3)..(FullCode - 1),
                                    t \in SeqsUpTo(0..1, 1)}

\* test_rat.c:46-49  rat_init(); rat_emit(id, payload, len, false), with the ring's
\* write index at the start of the buffer or two bytes before its end
InitEmit ==
  /\ cancelled = FALSE
  /\ HubOff /\ LisOff /\ PipeOff /\ RaceOff /\ BridgeOff /\ FwOff
  /\ fnPc = "call"
  /\ fnIn \in [id : 0..MaxCode, body : EmitBodies, wr : {0, RingSize - 2}]
  /\ fnOut = <<>>

\* test_rat.c:49-58  emit one packet, read what was written to the ring and decode
\* the part before the delimiter
EmitCall ==
  /\ fnPc = "call"
  /\ LET rb == [buf |-> ZeroBuffer(0, RingSize - 1), size |-> RingSize,
                wr |-> fnIn.wr, rd |-> fnIn.wr]
         r == rat_rtt_write(rb, fnIn.id, fnIn.body)
         frame == RingRead(r.rb.buf, RingSize, fnIn.wr, r.ret)
     IN fnOut' = [ret |-> r.ret, wr |-> r.rb.wr, frame |-> frame,
                  decoded |-> IF frame = <<>> THEN [err |-> TRUE, out |-> <<>>]
                              ELSE CobsDecode(SubSeq(frame, 1, Len(frame) - 1))]
  /\ fnPc' = "done"
  /\ UNCHANGED <<cancelled, hubVars, lisVars, pipeVars, fnIn, raceVars, bridgeVars, fwVars>>

NextEmit == EmitCall

SpecEmit == InitEmit /\ [][NextEmit]_vars

\* C13: the encoder writes a zero-free byte string followed by one 0x00, and
\* CobsDecode of the zero-free part gives back the id byte followed by the body.
C13_FramingRoundTrip ==
  fnPc = "done" =>
    /\ fnOut.ret > 0
    /\ fnOut.wr = (fnIn.wr + fnOut.ret) % RingSize
    /\ fnOut.frame[Len(fnOut.frame)] = 0
    /\ \A i \in 1..(Len(fnOut.frame) - 1) : fnOut.frame[i] # 0
    /\ ~fnOut.decoded.err
    /\ fnOut.decoded.out = <<fnIn.id>> \o fnIn.body

C13_Witness ==
  /\ fnPc = "done"
  /\ fnIn.wr > 0 /\ fnOut.wr < fnIn.wr
  /\ Len(fnIn.body) = FullCode /\ fnIn.body[FullCode] = 0
  /\ fnOut.frame[1] = FullCode
  /\ fnOut.decoded.out = <<fnIn.id>> \o fnIn.body

\* ------------------------------------------------------------- firmware emit and host
\* part_019:22-24  RAT_RTT_UP_MAIN_SIZE as overridden by the build
FwRingSize == 8

\* calls of rat_emit that are followed
MaxEmits == 3

\* packets given to rat_emit: an id byte, zero or not, and an empty body, a body of
\* one byte and bodies of two bytes that begin or end with a zero
FwPackets == [id : {0, 2}, body : {<<>>, <<1>>, <<0, 1>>, <<1, 0>>}]

\* rat_rtt.c:18-29  rat_rtt_ring_used
rat_rtt_ring_used(rb) ==
  IF rb.wr >= rb.rd THEN rb.wr - rb.rd ELSE rb.size - (rb.rd - rb.wr)

\* part_019:52-58  RatCobsState next to the buffer it writes
StateOn(rb, s) ==
  [buf |-> rb.buf, size |-> rb.size, code_pos |-> s.code_pos, wr |-> s.wr,
   code |-> s.code, written |-> s.written]

\* part_019:52-58  the fields of RatCobsState
CobsStateOf(st) ==
  [code_pos |-> st.code_pos, wr |-> st.wr, code |-> st.code, written |-> st.written]

\* part_006:10-13, rat_rtt.c:41-57  rat_init: the main up-buffer zeroed, wr = rd = 0
InitFirmware ==
  /\ cancelled = FALSE
  /\ HubOff /\ LisOff /\ PipeOff /\ ProtoOff /\ RaceOff /\ BridgeOff
  /\ ring = [buf |-> ZeroBuffer(0, FwRingSize - 1), size |-> FwRingSize,
             wr |-> 0, rd |-> 0]
  /\ emPc = "idle"
  /\ emIn = <<>>
  /\ emState = <<>>
  /\ emTodo = <<>>
  /\ emRet = <<>>
  /\ emDone = <<>>
  /\ hostWr = -1
  /\ hostSeen = <<>>

fwRest == <<cancelled, hubVars, lisVars, pipeVars, protoVars, raceVars, bridgeVars>>

\* part_006:15-18, rat_rtt.c:74-92  rat_emit -> rat_rtt_write up to rat_cobs_begin:
\* return 0 when the ring has no buffer or less free space than the worst case
rat_emit(packet_id, data) ==
  /\ emPc = "idle"
  /\ Len(emRet) < MaxEmits
  /\ emIn' = [id |-> packet_id, body |-> data]
  /\ LET needed == rat_cobs_max_encoded_length(Len(data) + 1) IN
       IF ring.size = 0 \/ rat_rtt_ring_free(ring) < needed
       THEN /\ emRet' = Append(emRet, 0)
            /\ UNCHANGED <<ring, emPc, emState, emTodo>>
       ELSE LET st == rat_cobs_begin(ring.buf, ring.size, ring.wr) IN
              /\ ring' = [ring EXCEPT !.buf = st.buf]
              /\ emState' = CobsStateOf(st)
              /\ emTodo' = <<packet_id>> \o data
              /\ emPc' = "write"
              /\ UNCHANGED emRet
  /\ UNCHANGED <<emDone, hostWr, hostSeen, fwRest>>

\* the byte loop storing the write index of the ring after every byte
EmitWriteByteEager ==
  /\ emPc = "write"
  /\ emTodo # <<>>
  /\ LET st == rat_cobs_write_byte(StateOn(ring, emState), Head(emTodo)) IN
       /\ ring' = [ring EXCEPT !.buf = st.buf, !.wr = st.wr]
       /\ emState' = CobsStateOf(st)
  /\ emTodo' = Tail(emTodo)
  /\ UNCHANGED <<emPc, emIn, emRet, emDone, hostWr, hostSeen, fwRest>>

\* rat_rtt.c:93-98  one rat_cobs_write_byte: the id byte, then the data bytes in order
EmitWriteByte ==
  /\ emPc = "write"
  /\ emTodo # <<>>
  /\ LET st == rat_cobs_write_byte(StateOn(ring, emState), Head(emTodo)) IN
       /\ ring' = [ring EXCEPT !.buf = st.buf]
       /\ emState' = CobsStateOf(st)
  /\ emTodo' = Tail(emTodo)
  /\ UNCHANGED <<emPc, emIn, emRet, emDone, hostWr, hostSeen, fwRest>>

\* rat_rtt.c:100  rat_cobs_finish after the last byte
EmitFinish ==
  /\ emPc = "write"
  /\ emTodo = <<>>
  /\ LET st == rat_cobs_finish(StateOn(ring, emState)) IN
       /\ ring' = [ring EXCEPT !.buf = st.buf]
       /\ emState' = CobsStateOf(st)
  /\ emPc' = "publish"
  /\ UNCHANGED <<emIn, emTodo, emRet, emDone, hostWr, hostSeen, fwRest>>

\* rat_rtt.c:102-106  rb->wr = state.wr between the barriers; return state.written
EmitPublish ==
  /\ emPc = "publish"
  /\ ring' = [ring EXCEPT !.wr = emState.wr]
  /\ emRet' = Append(emRet, emState.written)
  /\ emDone' = Append(emDone, emIn)
  /\ emPc' = "idle"
  /\ UNCHANGED <<emIn, emState, emTodo, hostWr, hostSeen, fwRest>>

\* part_001:44-53  the host samples the volatile write index of the up-buffer
HostPoll ==
  /\ hostWr = -1
  /\ hostWr' = ring.wr
  /\ UNCHANGED <<ring, emPc, emIn, emState, emTodo, emRet, emDone, hostSeen, fwRest>>

\* part_001:44-53  the host copies some of the bytes between rd and the sampled write
\* index out of the buffer and stores the new read index
HostRead ==
  /\ hostWr # -1
  /\ LET avail == (hostWr + ring.size - ring.rd) % ring.size IN
       IF avail = 0 THEN UNCHANGED <<ring, hostSeen>>
       ELSE \E n \in 1..avail :
              /\ hostSeen' = hostSeen \o RingRead(ring.buf, ring.size, ring.rd, n)
              /\ ring' = [ring EXCEPT !.rd = (ring.rd + n) % ring.size]
  /\ hostWr' = -1
  /\ UNCHANGED <<emPc, emIn, emState, emTodo, emRet, emDone, fwRest>>

NextFirmware ==
  \/ \E p \in FwPackets : rat_emit(p.id, p.body)
  \/ EmitWriteByte
  \/ EmitFinish
  \/ EmitPublish
  \/ HostPoll
  \/ HostRead

SpecFirmware == InitFirmware /\ [][NextFirmware]_vars

\* the bytes the host has read followed by the bytes it can still read, rd to wr
HostStream == hostSeen \o RingRead(ring.buf, ring.size, ring.rd, rat_rtt_ring_used(ring))

\* the number of 0x00 bytes in b
RECURSIVE Zeros(_)
Zeros(b) == IF b = <<>> THEN 0 ELSE (IF Head(b) = 0 THEN 1 ELSE 0) + Zeros(Tail(b))

\* index i of the buffer holds a byte the host has not read yet
Unread(rb, i) == (i + rb.size - rb.rd) % rb.size < rat_rtt_ring_used(rb)

\* what the host can see is the frames of the packets emitted so far and nothing else
WholeFramesOnly ==
  /\ HostStream # <<>> => HostStream[Len(HostStream)] = 0
  /\ Zeros(HostStream) = Len(emDone)
  /\ Len(FramesOf(HostStream)) = Len(emDone)
  /\ \A k \in 1..Len(emDone) :
       LET d == CobsDecode(FramesOf(HostStream)[k])
       IN ~d.err /\ d.out = <<emDone[k].id>> \o emDone[k].body

\* a step of rat_emit either rejects the packet and changes nothing, or moves the
\* write index once, past a finished frame; no step touches a byte not yet read
EmitStep ==
  /\ (emPc = "idle" /\ Len(emRet') > Len(emRet)) =>
       /\ emRet'[Len(emRet')] = 0
       /\ ring' = ring
       /\ rat_rtt_ring_free(ring) < rat_cobs_max_encoded_length(Len(emIn'.body) + 1)
  /\ (emPc = "idle" /\ emPc' = "write") =>
       rat_rtt_ring_free(ring) >= rat_cobs_max_encoded_length(Len(emIn'.body) + 1)
  /\ ring'.wr # ring.wr =>
       /\ emPc = "publish" /\ emPc' = "idle"
       /\ emRet' = Append(emRet, emState.written)
       /\ emState.written > 0
       /\ ring'.wr = (ring.wr + emState.written) % ring.size
       /\ ring'.buf = ring.buf
  /\ \A i \in 0..(ring.size - 1) : Unread(ring, i) => ring'.buf[i] = ring.buf[i]

\* C31: rat_emit returns 0 and leaves the ring alone when the free space is below the
\* worst-case encoded length, and otherwise writes one whole frame with its delimiter
\* into free space and then advances the write index once; the host, reading between
\* rd and wr at any moment, sees whole frames only and no unread byte is overwritten.
C31_EmitAtomicTowardsHost == []WholeFramesOnly /\ [][EmitStep]_vars

C31_Witness ==
  /\ Len(emDone) = 2
  /\ \E i \in 1..Len(emRet) : emRet[i] = 0
  /\ ring.wr < ring.rd
  /\ hostSeen # <<>>
  /\ rat_rtt_ring_used(ring) > 0

\* ------------------------------------------------------------- dynamic registry
\* type names as callers write them: plain, with case, blanks and a qualifier, unsupported
Uint8Raw == <<"u", "i", "n", "t", "8", "_", "t">>
Int16Raw ==
  <<VerticalTab, EmSpace, " ", "C", "o", "n", "s", "t", " ", "\t", "U+0130", "N", "T", "1",
    "6", "_", "T", "\f", NoBreakSpace, NelChar, IdeographicSpace>>
\* an unsupported type: the accented capital is no white space and stays, in lower case
AccentRaw == <<"U+00C1", "f", "l", "o", "a", "t", "U+0391">>

FieldDef(ctype, offset, size) ==
  [Name |-> "a", CType |-> ctype, Offset |-> offset, Size |-> size]

\* field definitions a caller can pass: offsets below, inside, past and far past a packet,
\* a size that is not the type's, an unsupported type
RegFields ==
  { FieldDef(Uint8Raw, IntOf(0), IntOf(1)), FieldDef(Uint8Raw, IntOf(1), IntOf(1)),
    FieldDef(Uint8Raw, IntOf(-1), IntOf(1)), FieldDef(Uint8Raw, MaxInt, IntOf(1)),
    FieldDef(Uint8Raw, IntOf(0), IntOf(2)), FieldDef(Int16Raw, IntOf(0), IntOf(2)),
    FieldDef(Int16Raw, IntOf(1), IntOf(2)), FieldDef(AccentRaw, IntOf(0), IntOf(1)) }

RegDefs ==
  [ByteSize : {IntOf(-1), IntOf(0), IntOf(1), IntOf(2)},
   Fields : SeqsUpTo(RegFields, MaxFields)]

RegIds == {1}

InitRegister ==
  /\ cancelled = FALSE
  /\ HubOff /\ LisOff /\ PipeOff /\ RaceOff /\ BridgeOff /\ FwOff
  /\ fnPc = "idle"
  /\ fnIn = <<>>
  /\ fnOut = <<>>

\* main.go:251  protocol.RegisterDynamic(id, def)
RegisterDynamicCall(id, def) ==
  /\ fnPc \in {"idle", "done"}
  /\ LET r == RegisterDynamicIn(dynamicRegistry, id, def) IN
       /\ dynamicRegistry' = r.registry
       /\ fnOut' = [err |-> r.err]
  /\ fnIn' = [op |-> "register", id |-> id, def |-> def, before |-> dynamicRegistry]
  /\ fnPc' = "done"
  /\ UNCHANGED <<cancelled, hubVars, lisVars, textID, cfPc, cfPacket, sinkPc, written,
                 fed, consumed, raceVars, bridgeVars, encErr, sinkLog, sinkPkt, fwVars>>

\* dynamic_decoder.go:31-35  ClearDynamicRegistry
ClearDynamicRegistryCall ==
  /\ fnPc \in {"idle", "done"}
  /\ dynamicRegistry' = <<>>
  /\ fnIn' = [op |-> "clear"]
  /\ fnOut' = <<>>
  /\ fnPc' = "done"
  /\ UNCHANGED <<cancelled, hubVars, lisVars, textID, cfPc, cfPacket, sinkPc, written,
                 fed, consumed, raceVars, bridgeVars, encErr, sinkLog, sinkPkt, fwVars>>

\* dynamic_decoder.go:82-109  parseDynamicPacket(id, body)
ParseDynamicCall(id, body) ==
  /\ fnPc \in {"idle", "done"}
  /\ fnIn' = [op |-> "parse", id |-> id, body |-> body]
  /\ fnOut' = parseDynamicPacket(id, body)
  /\ fnPc' = "done"
  /\ UNCHANGED <<cancelled, hubVars, lisVars, pipeVars, raceVars, bridgeVars, fwVars>>

NextRegister ==
  \/ \E id \in RegIds, def \in RegDefs : RegisterDynamicCall(id, def)
  \/ ClearDynamicRegistryCall
  \/ \E id \in RegIds, body \in SeqsUpTo(0..MaxByte, MaxBody) : ParseDynamicCall(id, body)

SpecRegister == InitRegister /\ [][NextRegister]_vars

\* a field lies inside a packet of byteSize bytes: 0 <= offset and offset + size <= byteSize,
\* as numbers (size and byteSize positive, so byteSize - size does not wrap)
FieldFits(field, byteSize) ==
  /\ ~IntIsNeg(field.Offset)
  /\ ~IntLess(byteSize, field.Size)
  /\ ~IntLess(IntAdd(byteSize, IntMinus(field.Size)), field.Offset)

\* the schema a caller passes meets the registration rules
ValidSchema(def) ==
  /\ IntLess(IntOf(0), def.ByteSize)
  /\ Len(def.Fields) > 0
  /\ \A i \in 1..Len(def.Fields) :
       LET size == dynamicTypeSize(normalizeDynamicType(def.Fields[i].CType)) IN
         /\ size # 0
         /\ def.Fields[i].Size = IntOf(size)
         /\ FieldFits(def.Fields[i], def.ByteSize)

\* C15: RegisterDynamic accepts a schema exactly when byte_size > 0, the field list is
\* non-empty, every field's type is supported with its declared size, and every field has
\* offset >= 0 and offset + size <= byte_size; a rejected call leaves the registry as it was.
C15_AcceptsExactlyValidSchemas ==
  (fnPc = "done" /\ fnIn.op = "register") =>
     /\ ~fnOut.err <=> ValidSchema(fnIn.def)
     /\ fnOut.err => dynamicRegistry = fnIn.before

\* a stored schema is well formed: fields, sizes of their types, every field inside the packet
StoredSchemaOk(def) ==
  /\ Len(def.Fields) > 0
  /\ \A i \in 1..Len(def.Fields) :
       /\ dynamicTypeSize(def.Fields[i].CType) # 0
       /\ def.Fields[i].Size = IntOf(dynamicTypeSize(def.Fields[i].CType))
       /\ FieldFits(def.Fields[i], def.ByteSize)

\* C16: after any sequence of RegisterDynamic and ClearDynamicRegistry calls every stored
\* schema has a non-empty field list, field sizes of their types and every field inside
\* byte_size, and decoding a body never reads outside the body.
C16_StoredSchemasWellFormed ==
  /\ \A id \in DOMAIN dynamicRegistry : StoredSchemaOk(dynamicRegistry[id])
  /\ (fnPc = "done" /\ fnIn.op = "parse") => ~fnOut.panic

\* ------------------------------------------------------------- ParsePacket on its own
ParseIds == {1, 2}

RawType(name) ==
  CASE name = "int8_t" -> <<"i", "n", "t", "8", "_", "t">>
    [] name = "uint8_t" -> Uint8Raw
    [] name = "int16_t" -> <<"i", "n", "t", "1", "6", "_", "t">>
    [] name = "uint16_t" -> <<"u", "i", "n", "t", "1", "6", "_", "t">>
    [] name = "int32_t" -> <<"i", "n", "t", "3", "2", "_", "t">>
    [] name = "uint32_t" -> <<"u", "i", "n", "t", "3", "2", "_", "t">>
    [] name = "int64_t" -> <<"i", "n", "t", "6", "4", "_", "t">>
    [] name = "uint64_t" -> <<"u", "i", "n", "t", "6", "4", "_", "t">>
    [] name = "float" -> <<"f", "l", "o", "a", "t">>
    [] name = "double" -> <<"d", "o", "u", "b", "l", "e">>
    [] name = "bool" -> <<"b", "o", "o", "l">>

Field(name, ctype, offset) ==
  [Name |-> name, CType |-> RawType(ctype), Offset |-> offset,
   Size |-> IntOf(dynamicTypeSize(ctype))]

\* schemas passed to RegisterDynamic before parsing: the two of the decoder tests, one per
\* remaining type, and one whose only field lies at offset MaxInt
ParseDefs ==
  { [ByteSize |-> IntOf(8), Fields |-> <<Field("value", "int32_t", IntOf(0)),
                                         Field("tick_ms", "uint32_t", IntOf(4))>>],
    [ByteSize |-> IntOf(4), Fields |-> <<Field("v", "uint32_t", IntOf(0))>>],
    [ByteSize |-> IntOf(4), Fields |-> <<Field("s", "int16_t", IntOf(2)),
                                         Field("u", "uint16_t", IntOf(0))>>],
    [ByteSize |-> IntOf(3), Fields |-> <<Field("i", "int8_t", IntOf(0)),
                                         Field("b", "bool", IntOf(1)),
                                         Field("c", "uint8_t", IntOf(2))>>],
    [ByteSize |-> IntOf(8), Fields |-> <<Field("q", "int64_t", IntOf(0)),
                                         Field("f", "float", IntOf(4))>>],
    [ByteSize |-> IntOf(8), Fields |-> <<Field("w", "uint64_t", IntOf(0)),
                                         Field("d", "double", IntOf(0))>>],
    [ByteSize |-> IntOf(1), Fields |-> <<Field("far", "uint8_t", MaxInt)>>] }

\* bodies: every short body of small bytes, and bodies with sign bits and zeros
ParseBodies ==
  SeqsUpTo(0..MaxByte, MaxBody) \cup
  { <<244, 255, 255, 255, 123, 0, 0, 0>>, <<244, 255, 255, 255>>, <<255, 255, 255, 127>>,
    <<0, 0, 0, 128>>, <<128, 0, 255>>, <<127, 2, 0>>, <<255, 127, 0, 128>>,
    <<104, 105, 0>>, <<111, 107, 0, 0>>, <<0, 104>>,
    <<255, 255, 255, 255, 255, 255, 255, 255>>, <<1, 0, 0, 0, 0, 0, 0, 128>> }

\* config.PacketDef as registerDynamicPackets reads it: the id and the schema
PacketDef(id, def) == [ID |-> id, def |-> def]

\* the packets of a configuration: ids of one byte and one that is not, the schemas above
\* and one with no bytes
ParsePackets ==
  SeqsUpTo({PacketDef(id, def) :
              id \in ParseIds \cup {256},
              def \in ParseDefs \cup {[ByteSize |-> IntOf(0), Fields |-> <<>>]}},
           Cardinality(ParseIds))

\* main.go:229-255  registerDynamicPackets: ClearDynamicRegistry, then RegisterDynamic for
\* each packet in order; the first id above 0xFF or rejected schema ends the call with
\* an error and the packets after it are not registered
RECURSIVE registerDynamicPackets(_)
registerDynamicPackets(packets) ==
  IF packets = <<>> THEN [err |-> FALSE, registry |-> <<>>]
  ELSE LET before == registerDynamicPackets(SubSeq(packets, 1, Len(packets) - 1))
           pkt == packets[Len(packets)]
       IN IF before.err THEN before
          ELSE IF pkt.ID > 255 THEN [err |-> TRUE, registry |-> before.registry]
          ELSE RegisterDynamicIn(before.registry, pkt.ID, pkt.def)

\* main.go:181-183, dynamic_decoder_test.go:68-82  the text id is set and the packets of
\* the configuration are registered; a daemon whose registration fails does not start
InitParse ==
  /\ cancelled = FALSE
  /\ HubOff /\ LisOff /\ RaceOff /\ BridgeOff /\ FwOff
  /\ textID \in {2, 3}
  /\ \E packets \in ParsePackets :
       /\ ~registerDynamicPackets(packets).err
       /\ dynamicRegistry = registerDynamicPackets(packets).registry
  /\ cfPc = "off"
  /\ cfPacket = <<>>
  /\ sinkPc = "off"
  /\ written = <<>>
  /\ encErr = FALSE
  /\ sinkLog = <<>>
  /\ sinkPkt = <<>>
  /\ fed = 0
  /\ consumed = <<>>
  /\ fnPc = "idle"
  /\ fnIn = <<>>
  /\ fnOut = <<>>

\* dynamic_decoder_test.go:84  protocol.ParsePacket(id, body)
ParsePacketCall(id, body) ==
  /\ fnPc = "idle"
  /\ fnIn' = [fn |-> "ParsePacket", id |-> id, body |-> body]
  /\ fnOut' = ParsePacket(id, body)
  /\ fnPc' = "done"
  /\ UNCHANGED <<cancelled, hubVars, lisVars, pipeVars, raceVars, bridgeVars, fwVars>>

\* dynamic_decoder.go:82  parseDynamicPacket(id, payload), the schema branch of ParsePacket
ParseDynamicPacketCall(id, body) ==
  /\ fnPc = "idle"
  /\ id # textID
  /\ fnIn' = [fn |-> "parseDynamicPacket", id |-> id, body |-> body]
  /\ fnOut' = parseDynamicPacket(id, body)
  /\ fnPc' = "done"
  /\ UNCHANGED <<cancelled, hubVars, lisVars, pipeVars, raceVars, bridgeVars, fwVars>>

NextParse ==
  \/ \E id \in ParseIds, body \in ParseBodies : ParsePacketCall(id, body)
  \/ \E id \in ParseIds, body \in ParseBodies : ParseDynamicPacketCall(id, body)

SpecParse == InitParse /\ [][NextParse]_vars

\* text is what the bytes of body spell up to its first 0x00
IsTextOf(text, body) ==
  /\ Len(text) <= Len(body)
  /\ \A i \in 1..Len(text) : text[i] = body[i] /\ text[i] # 0
  /\ Len(text) < Len(body) => body[Len(text) + 1] = 0

\* C18: ParsePacket chooses the decoder by id alone: the text id yields a string even
\* when a schema is registered for it; another id with a schema yields a field map or a
\* decode error; any other id yields a raw record with the same id and body and no error.
\* A call that ends in a panic yields neither a map nor an error.
C18_DecoderChosenById ==
  (fnPc = "done" /\ fnIn.fn = "ParsePacket") =>
     /\ fnIn.id = textID =>
          /\ ~fnOut.panic /\ ~fnOut.err /\ fnOut.data.kind = "text"
          /\ IsTextOf(fnOut.data.text, fnIn.body)
     /\ (fnIn.id # textID /\ fnIn.id \in DOMAIN dynamicRegistry) =>
          /\ ~fnOut.panic
          /\ fnOut.err \/ fnOut.data.kind = "map"
     /\ (fnIn.id # textID /\ fnIn.id \notin DOMAIN dynamicRegistry) =>
          /\ ~fnOut.panic /\ ~fnOut.err /\ fnOut.data.kind = "raw"
          /\ fnOut.data.id = fnIn.id /\ fnOut.data.payload = fnIn.body

\* the k-th byte (from 0) of a number's two's complement form
ByteOfNumber(v, k) == (v \div Pow2(8 * k)) % 256

\* the k-th byte (from 0) of a limb value
ByteOfLimbs(limbs, k) == (limbs[(k \div 2) + 1] \div Pow2(8 * (k % 2))) % 256

\* v is the value the bytes hold, read little-endian as a ctype
ReadsAs(ctype, v, bytes) ==
  CASE ctype \in {"uint8_t", "uint16_t"} ->
         /\ v >= 0 /\ v < Pow2(8 * Len(bytes))
         /\ \A k \in 0..(Len(bytes) - 1) : ByteOfNumber(v, k) = bytes[k + 1]
    [] ctype \in {"int8_t", "int16_t"} ->
         /\ v >= -Pow2(8 * Len(bytes) - 1) /\ v < Pow2(8 * Len(bytes) - 1)
         /\ \A k \in 0..(Len(bytes) - 1) : ByteOfNumber(v, k) = bytes[k + 1]
    [] ctype = "int32_t" ->
         \A k \in 0..3 : ByteOfNumber(v, k) = bytes[k + 1]
    [] ctype = "uint32_t" ->
         /\ v[3] = 0 /\ v[4] = 0
         /\ \A k \in 0..3 : ByteOfLimbs(v, k) = bytes[k + 1]
    [] ctype = "int64_t" -> \A k \in 0..7 : ByteOfLimbs(v, k) = bytes[k + 1]
    [] ctype = "uint64_t" -> \A k \in 0..7 : ByteOfLimbs(v.uint64, k) = bytes[k + 1]
    [] ctype = "float" ->
         /\ v.bits32[3] = 0 /\ v.bits32[4] = 0
         /\ \A k \in 0..3 : ByteOfLimbs(v.bits32, k) = bytes[k + 1]
    [] ctype = "double" -> \A k \in 0..7 : ByteOfLimbs(v.bits64, k) = bytes[k + 1]
    [] ctype = "bool" -> v = (bytes[1] # 0)

\* C19: for a non-text id with a registered schema, decoding succeeds exactly when
\* len(body) = byte_size; then the map binds each field name to the value of the size
\* bytes at its offset, little-endian per its type (F4 FF FF FF as int32 is -12); on a
\* length mismatch there is an error and no record.
C19_DecodesFieldsLittleEndian ==
  (fnPc = "done" /\ fnIn.fn = "parseDynamicPacket" /\ fnIn.id \in DOMAIN dynamicRegistry) =>
     LET def == dynamicRegistry[fnIn.id]
         fits == IntOf(Len(fnIn.body)) = def.ByteSize
         success == fnOut.found /\ ~fnOut.err /\ ~fnOut.panic
     IN /\ success <=> fits
        /\ ~fits => (fnOut.err /\ fnOut.out = <<>>)
        /\ success =>
             /\ DOMAIN fnOut.out = {def.Fields[i].Name : i \in 1..Len(def.Fields)}
             /\ \A i \in 1..Len(def.Fields) :
                  ReadsAs(def.Fields[i].CType, fnOut.out[def.Fields[i].Name],
                          SubSeq(fnIn.body, NumOf(def.Fields[i].Offset) + 1,
                                 NumOf(def.Fields[i].Offset) + NumOf(def.Fields[i].Size)))
        /\ (success /\ fnIn.body = <<244, 255, 255, 255, 123, 0, 0, 0>>
              /\ "value" \in DOMAIN fnOut.out) => fnOut.out["value"] = -12

\* ------------------------------------------------------------- registry under its lock
\* one goroutine registers and clears while another looks up (the decode path)
RaceIds == {1, 2}

\* schemas the registering goroutine passes: two that differ in every part, one rejected
RaceDefs ==
  { [ByteSize |-> IntOf(1), Fields |-> <<FieldDef(Uint8Raw, IntOf(0), IntOf(1))>>],
    [ByteSize |-> IntOf(2), Fields |-> <<FieldDef(Int16Raw, IntOf(0), IntOf(2))>>],
    [ByteSize |-> IntOf(0), Fields |-> <<FieldDef(Uint8Raw, IntOf(0), IntOf(1))>>] }

\* what a map read of id yields: [ok, def]
Lookup(registry, id) ==
  IF id \in DOMAIN registry THEN [ok |-> TRUE, def |-> registry[id]]
  ELSE [ok |-> FALSE, def |-> <<>>]

\* the entry of id while the store of entry is half done: the new sizes over the old fields
HalfStored(registry, id, entry) ==
  StoreEntry(registry, id,
             [entry EXCEPT !.Fields = IF id \in DOMAIN registry
                                        THEN registry[id].Fields ELSE <<>>])

InitRace ==
  /\ cancelled = FALSE
  /\ HubOff /\ LisOff /\ PipeOff /\ ProtoOff /\ BridgeOff /\ FwOff
  /\ muWriter = FALSE
  /\ muReaders = 0
  /\ wPc = "idle"
  /\ wArg = <<>>
  /\ rPc = "idle"
  /\ rId = 0
  /\ rRet = <<>>
  /\ current = [id \in RaceIds |-> [ok |-> FALSE, def |-> <<>>]]
  /\ during = {}

raceRest == <<cancelled, hubVars, lisVars, textID, cfPc, cfPacket, sinkPc, written, fed,
              consumed, protoVars, bridgeVars, encErr, sinkLog, sinkPkt, fwVars>>

\* dynamic_decoder.go:37-74  RegisterDynamic validates before it takes the lock
RegisterBegin(id, def) ==
  /\ wPc \in {"idle", "returned"}
  /\ LET n == normalizeDef(id, def) IN
       /\ wArg' = [op |-> "register", id |-> id, def |-> n.def, err |-> n.err]
       /\ wPc' = IF n.err THEN "returned" ELSE "lock"
  /\ UNCHANGED <<raceRest, dynamicRegistry, muWriter, muReaders, rPc, rId, rRet, current,
                 during>>

\* dynamic_decoder.go:31  ClearDynamicRegistry is called
ClearBegin ==
  /\ wPc \in {"idle", "returned"}
  /\ wArg' = [op |-> "clear", id |-> 0, def |-> <<>>, err |-> FALSE]
  /\ wPc' = "lock"
  /\ UNCHANGED <<raceRest, dynamicRegistry, muWriter, muReaders, rPc, rId, rRet, current,
                 during>>

\* dynamic_decoder.go:32,76  dynamicRegistryMu.Lock(): no holder of either kind
WriterLock ==
  /\ wPc = "lock"
  /\ ~muWriter /\ muReaders = 0
  /\ muWriter' = TRUE
  /\ wPc' = "store"
  /\ UNCHANGED <<raceRest, dynamicRegistry, muReaders, wArg, rPc, rId, rRet, current, during>>

\* dynamic_decoder.go:77  the map assignment begins: the entry is written part by part
StoreBegin ==
  /\ wPc = "store" /\ wArg.op = "register"
  /\ dynamicRegistry' = HalfStored(dynamicRegistry, wArg.id, wArg.def)
  /\ wPc' = "storing"
  /\ UNCHANGED <<raceRest, muWriter, muReaders, wArg, rPc, rId, rRet, current, during>>

\* dynamic_decoder.go:77  the map assignment is complete
StoreEnd ==
  /\ wPc = "storing"
  /\ dynamicRegistry' = StoreEntry(dynamicRegistry, wArg.id, wArg.def)
  /\ current' = [current EXCEPT ![wArg.id] = [ok |-> TRUE, def |-> wArg.def]]
  /\ during' = IF rPc \in {"rlock", "read", "runlock"} /\ rId = wArg.id
                 THEN during \cup {[ok |-> TRUE, def |-> wArg.def]} ELSE during
  /\ wPc' = "unlock"
  /\ UNCHANGED <<raceRest, muWriter, muReaders, wArg, rPc, rId, rRet>>

\* dynamic_decoder.go:33  dynamicRegistry = map[uint8]DynamicPacketDef{}
ClearStore ==
  /\ wPc = "store" /\ wArg.op = "clear"
  /\ dynamicRegistry' = <<>>
  /\ current' = [id \in RaceIds |-> [ok |-> FALSE, def |-> <<>>]]
  /\ during' = IF rPc \in {"rlock", "read", "runlock"}
                 THEN during \cup {[ok |-> FALSE, def |-> <<>>]} ELSE during
  /\ wPc' = "unlock"
  /\ UNCHANGED <<raceRest, muWriter, muReaders, wArg, rPc, rId, rRet>>

\* dynamic_decoder.go:34,78  dynamicRegistryMu.Unlock()
WriterUnlock ==
  /\ wPc = "unlock"
  /\ muWriter' = FALSE
  /\ wPc' = "returned"
  /\ UNCHANGED <<raceRest, dynamicRegistry, muReaders, wArg, rPc, rId, rRet, current, during>>

\* dynamic_decoder.go:82  parseDynamicPacket(id, payload) is called
LookupBegin(id) ==
  /\ rPc \in {"idle", "returned"}
  /\ rId' = id
  /\ rRet' = <<>>
  /\ during' = {current[id]}
  /\ rPc' = "rlock"
  /\ UNCHANGED <<raceRest, dynamicRegistry, muWriter, muReaders, wPc, wArg, current>>

\* an RLock that does not wait for the holder of Lock
ReaderLockIgnoresWriter ==
  /\ rPc = "rlock"
  /\ muReaders' = muReaders + 1
  /\ rPc' = "read"
  /\ UNCHANGED <<raceRest, dynamicRegistry, muWriter, wPc, wArg, rId, rRet, current, during>>

\* dynamic_decoder.go:83  dynamicRegistryMu.RLock(): waits while Lock is held
ReaderLock ==
  /\ rPc = "rlock"
  /\ ~muWriter
  /\ muReaders' = muReaders + 1
  /\ rPc' = "read"
  /\ UNCHANGED <<raceRest, dynamicRegistry, muWriter, wPc, wArg, rId, rRet, current, during>>

\* dynamic_decoder.go:84  def, ok := dynamicRegistry[id]
ReaderRead ==
  /\ rPc = "read"
  /\ rRet' = Lookup(dynamicRegistry, rId)
  /\ rPc' = "runlock"
  /\ UNCHANGED <<raceRest, dynamicRegistry, muWriter, muReaders, wPc, wArg, rId, current,
                 during>>

\* dynamic_decoder.go:85  dynamicRegistryMu.RUnlock()
ReaderUnlock ==
  /\ rPc = "runlock"
  /\ muReaders' = muReaders - 1
  /\ rPc' = "returned"
  /\ UNCHANGED <<raceRest, dynamicRegistry, muWriter, wPc, wArg, rId, rRet, current, during>>

NextRace ==
  \/ \E id \in RaceIds, def \in RaceDefs : RegisterBegin(id, def)
  \/ ClearBegin
  \/ WriterLock
  \/ StoreBegin
  \/ StoreEnd
  \/ ClearStore
  \/ WriterUnlock
  \/ \E id \in RaceIds : LookupBegin(id)
  \/ ReaderLock
  \/ ReaderRead
  \/ ReaderUnlock

SpecRace == InitRace /\ [][NextRace]_vars

\* C17: outside the store itself the registry holds, for every id, just the entry of the
\* last completed registration (none after a clear), so a second registration replaces the
\* first entirely; and what a lookup reads is an entry the id had as a whole at some
\* instant of the lookup: the old schema, the new one or a miss.
C17_OneWholeSchemaPerId ==
  /\ wPc # "storing" => \A id \in RaceIds : Lookup(dynamicRegistry, id) = current[id]
  /\ rPc \in {"runlock", "returned"} => rRet \in during

\* a registration of id 1 replaced another while a lookup of id 1 was under way, and the
\* lookup read the new schema
C17_Witness ==
  /\ rPc = "returned" /\ rId = 1
  /\ Cardinality(during) = 3
  /\ rRet.ok /\ rRet = current[1]
  /\ rRet.def.ByteSize = IntOf(2)

\* ------------------------------------------------------------- foxglove bridge
\* the connections a server accepts over its life
ConnIds == 1..NumConns

\* two clients that are connected at the same time
ClientIds == {1, 2}

\* the connections of the running server
Conns == DOMAIN wsPc

\* the subscription ids clients use
WsSubIds == {1, 2}

\* part_015:239-273  DefaultConfig: the channel ids
ChannelID == 1
MarkerChannelID == 2
TransformChannelID == 3
ImageChannelID == 4
LogChannelID == 5
TempChannelID == 6

\* jlink_rtt_server.sh:456-468
supportedChannels ==
  {ChannelID, MarkerChannelID, TransformChannelID, LogChannelID, TempChannelID}
    \cup (IF imageEnabled THEN {ImageChannelID} ELSE {})

\* jlink_rtt_server.sh:480-534  the ids of the channels of the advertise message
advertise ==
  <<ChannelID, MarkerChannelID, TransformChannelID, LogChannelID, TempChannelID>>
    \o (IF imageEnabled THEN <<ImageChannelID>> ELSE <<>>)

\* jlink_rtt_server.sh:834  make(map[uint32]uint64)
NoSubs == [id \in {} |-> 0]

\* messages.go:37-50  Subscription, and a client message as readLoop sees it: the frame
\* type, whether the header and the whole message unmarshal, the op and the two lists
Subscription(id, channelId) == [ID |-> id, ChannelID |-> channelId]

ClientMsg(type, json, op, body, subscriptions, subscriptionIds) ==
  [type |-> type, json |-> json, op |-> op, body |-> body,
   Subscriptions |-> subscriptions, SubscriptionIDs |-> subscriptionIds]

\* what a client may send: subscribe (supported, unsupported, mixed, one id twice),
\* unsubscribe (known, unknown ids), an unknown op, malformed JSON, a message whose lists
\* do not unmarshal, and a binary frame that holds a subscribe
WsMsgs ==
  { ClientMsg("text", TRUE, "subscribe", TRUE, <<Subscription(1, ChannelID)>>, <<>>),
    ClientMsg("text", TRUE, "subscribe", TRUE, <<Subscription(1, LogChannelID)>>, <<>>),
    ClientMsg("text", TRUE, "subscribe", TRUE, <<Subscription(2, ChannelID)>>, <<>>),
    ClientMsg("text", TRUE, "subscribe", TRUE, <<Subscription(2, ImageChannelID)>>, <<>>),
    ClientMsg("text", TRUE, "subscribe", TRUE,
              <<Subscription(1, ImageChannelID), Subscription(2, LogChannelID)>>, <<>>),
    ClientMsg("text", TRUE, "subscribe", TRUE,
              <<Subscription(2, LogChannelID), Subscription(2, ChannelID)>>, <<>>),
    ClientMsg("text", TRUE, "subscribe", FALSE, <<Subscription(2, ChannelID)>>, <<>>),
    ClientMsg("text", TRUE, "unsubscribe", TRUE, <<>>, <<1>>),
    ClientMsg("text", TRUE, "unsubscribe", TRUE, <<Subscription(2, ChannelID)>>, <<2, 3>>),
    ClientMsg("text", TRUE, "unsubscribe", FALSE, <<>>, <<1, 2>>),
    ClientMsg("text", TRUE, "advertise", TRUE, <<Subscription(2, ChannelID)>>, <<1>>),
    ClientMsg("text", FALSE, "subscribe", TRUE, <<Subscription(2, ChannelID)>>, <<1>>),
    ClientMsg("binary", TRUE, "subscribe", TRUE, <<Subscription(2, ChannelID)>>, <<1>>) }

\* the messages of a client with two subscriptions of the packet channel
SlowMsgs ==
  { ClientMsg("text", TRUE, "subscribe", TRUE, <<Subscription(1, ChannelID)>>, <<>>),
    ClientMsg("text", TRUE, "subscribe", TRUE, <<Subscription(2, ChannelID)>>, <<>>),
    ClientMsg("text", TRUE, "unsubscribe", TRUE, <<>>, <<1>>) }

\* the messages of a session on a connection: a subscribe to the packet channel and the
\* image channel, an unsubscribe and a binary frame
SessionMsgs ==
  { ClientMsg("text", TRUE, "subscribe", TRUE,
              <<Subscription(1, ChannelID), Subscription(2, ImageChannelID)>>, <<>>),
    ClientMsg("text", TRUE, "unsubscribe", TRUE, <<>>, <<1>>),
    ClientMsg("binary", TRUE, "subscribe", TRUE, <<Subscription(2, ChannelID)>>, <<1>>) }

\* the messages of a client that binds its ids to the packet, log and image channels and
\* unsubscribes both in one message
RouteMsgs ==
  { ClientMsg("text", TRUE, "subscribe", TRUE, <<Subscription(1, ChannelID)>>, <<>>),
    ClientMsg("text", TRUE, "subscribe", TRUE, <<Subscription(2, LogChannelID)>>, <<>>),
    ClientMsg("text", TRUE, "subscribe", TRUE, <<Subscription(2, ImageChannelID)>>, <<>>),
    ClientMsg("text", TRUE, "unsubscribe", TRUE, <<>>, <<1, 2>>) }

\* the messages of a short session: subscribe, unsubscribe and a binary frame
BridgeMsgs ==
  { ClientMsg("text", TRUE, "subscribe", TRUE, <<Subscription(1, ChannelID)>>, <<>>),
    ClientMsg("text", TRUE, "unsubscribe", TRUE, <<>>, <<1>>),
    ClientMsg("binary", TRUE, "subscribe", TRUE, <<Subscription(2, ChannelID)>>, <<1>>) }

\* jlink_rtt_server.sh:897-901
addSub(subs, id, channelID) ==
  [i \in DOMAIN subs \cup {id} |-> IF i = id THEN channelID ELSE subs[i]]

\* jlink_rtt_server.sh:903-907
removeSub(subs, id) == [i \in DOMAIN subs \ {id} |-> subs[i]]

\* jlink_rtt_server.sh:844-874  one iteration of readLoop on a message that was read: the
\* calls it makes on the client, in the order of the message; each takes and releases c.mu
readLoop(msg) ==
  IF msg.type # "text" THEN <<>>
  ELSE IF ~msg.json THEN <<>>
  ELSE IF msg.op = "subscribe"
    THEN IF ~msg.body THEN <<>>
         ELSE [i \in 1..Len(msg.Subscriptions) |->
                 [call |-> "addSub", id |-> msg.Subscriptions[i].ID,
                  channelID |-> msg.Subscriptions[i].ChannelID]]
  ELSE IF msg.op = "unsubscribe"
    THEN IF ~msg.body THEN <<>>
         ELSE [i \in 1..Len(msg.SubscriptionIDs) |->
                 [call |-> "removeSub", id |-> msg.SubscriptionIDs[i], channelID |-> 0]]
  ELSE <<>>

\* a range loop that stores every subscription, whatever its channel
readLoopCallAnyChannel(subs, op, supported) ==
  IF op.call = "addSub" THEN addSub(subs, op.id, op.channelID) ELSE removeSub(subs, op.id)

\* jlink_rtt_server.sh:861-865,871-873  one pass of the range loop over the entries of the
\* message: addSub when the channel is supported, removeSub
readLoopCall(subs, op, supported) ==
  IF op.call = "addSub"
    THEN IF op.channelID \in supported THEN addSub(subs, op.id, op.channelID) ELSE subs
    ELSE removeSub(subs, op.id)

\* the ids of every subscription of the client, whatever its channel
subIDs(subs, channelID) == DOMAIN subs

\* jlink_rtt_server.sh:909-919
subIDsForChannel(subs, channelID) == {id \in DOMAIN subs : subs[id] = channelID}

\* the orders in which a range over a Go map can yield the ids
Orders(ids) ==
  {s \in [1..Cardinality(ids) -> ids] : \A i, j \in DOMAIN s : s[i] = s[j] => i = j}


\* a packet as broadcastLoop takes it from the hub. broadcastPacket asks three questions
\* of it, each on its own: is its id the text id, is its Data a TemperaturePacket, is its
\* id the quaternion id; kinds is the set of those it answers with yes ("text", "temp",
\* "quat"), so a server whose text id is its quaternion id has packets of both kinds.
\* marshals says whether json.Marshal accepts its Data. quat is what extractQuaternion
\* (jlink_rtt_server.sh:732-751) makes of it: "none", "finite" or "nan" (a NaN or an
\* infinity among its floats), read from a QuatPacket, else from the keys x, y, z, w (or
\* q_w, q_x, q_y, q_z) of a map, else from the first 16 bytes of the payload
Packet(kinds, marshals, quat, body) ==
  [kinds |-> kinds, marshals |-> marshals, quat |-> quat, payload |-> body]

\* one publishJSONToChannel call of broadcastPacket: the channel, whether json.Marshal
\* accepts the message, and the payload
Outbound(channelID, marshals, body) ==
  [chan |-> channelID, marshals |-> marshals, payload |-> body]

\* jlink_rtt_server.sh:585-619  the publishJSONToChannel calls broadcastPacket makes for a
\* packet, in order: the record (its Data is dropped for the text id), then the log
\* message of a packet of the text id, the temperature message of a TemperaturePacket,
\* and the marker and the transform of a packet of the quaternion id that
\* extractQuaternion finds a quaternion in. The record marshals when the packet's Data
\* does; the temperature message holds the one float of that Data; the marker and the
\* transform marshal when the quaternion's floats are finite, whatever else the Data holds
outbound(pkt) ==
  <<Outbound(ChannelID, "text" \in pkt.kinds \/ pkt.marshals, pkt.payload)>>
    \o (IF "text" \in pkt.kinds THEN <<Outbound(LogChannelID, TRUE, pkt.payload)>> ELSE <<>>)
    \o (IF "temp" \in pkt.kinds THEN <<Outbound(TempChannelID, pkt.marshals, pkt.payload)>>
          ELSE <<>>)
    \o (IF "quat" \in pkt.kinds /\ pkt.quat # "none"
          THEN <<Outbound(MarkerChannelID, pkt.quat = "finite", pkt.payload),
                 Outbound(TransformChannelID, pkt.quat = "finite", pkt.payload)>>
          ELSE <<>>)

\* jlink_rtt_server.sh:557-567  the payload of the image message
ImagePayload == 0

\* jlink_rtt_server.sh:632  EncodeMessageData(subID, logTime, payload): the frame made for
\* one subscription of the channel
Frame(subID, channelID, body) ==
  [kind |-> "binary", sub |-> subID, chan |-> channelID, payload |-> body]

\* a trySend without the recover: the send on a closed channel panics
trySendNoRecover(q, open, frame) ==
  IF ~open THEN [q |-> q, taken |-> FALSE, panic |-> TRUE]
  ELSE IF Len(q) < SendBuf THEN [q |-> Append(q, frame), taken |-> TRUE, panic |-> FALSE]
  ELSE [q |-> q, taken |-> FALSE, panic |-> FALSE]

\* jlink_rtt_server.sh:887-895  non-blocking send; the panic of a send on a closed
\* channel is recovered
trySend(q, open, frame) ==
  IF ~open THEN [q |-> q, taken |-> FALSE, panic |-> FALSE]
  ELSE IF Len(q) < SendBuf THEN [q |-> Append(q, frame), taken |-> TRUE, panic |-> FALSE]
  ELSE [q |-> q, taken |-> FALSE, panic |-> FALSE]

connVars == <<wsPc, wlPc, wlMsg, wsWire, wsSend, wsSendOpen, wsOnce, wsCloses, wsSubs, wsClients>>
bcVars == <<bcPc, bcTodo, bcChan, bcOut, bcCount, bcDropped>>
imVars == <<imageEnabled, imPc, imTodo, imClient, imIds, imCount>>
rlVars == <<rlOps, rlMsg>>

\* jlink_rtt_server.sh:369-376,389-408  NewServer and Run: the image channel is enabled
\* when the configured image file is readable and not empty; serving, no connection yet,
\* broadcastLoop waiting, imageLoop started when the image channel is enabled
InitBridge ==
  /\ cancelled = FALSE
  /\ HubOff /\ LisOff /\ PipeOff /\ ProtoOff /\ RaceOff /\ FwOff
  /\ imageEnabled \in BOOLEAN
  /\ imPc = IF imageEnabled THEN "run" ELSE "off"
  /\ imTodo = {}
  /\ imClient = 0
  /\ imIds = <<>>
  /\ imCount = 0
  /\ wsPc = [c \in ConnIds |-> "idle"]
  /\ wlPc = [c \in ConnIds |-> "off"]
  /\ wlMsg = [c \in ConnIds |-> <<>>]
  /\ wsWire = [c \in ConnIds |-> <<>>]
  /\ wsSend = [c \in ConnIds |-> <<>>]
  /\ wsSendOpen = [c \in ConnIds |-> FALSE]
  /\ wsOnce = [c \in ConnIds |-> FALSE]
  /\ wsCloses = [c \in ConnIds |-> 0]
  /\ wsSubs = [c \in ConnIds |-> NoSubs]
  /\ rlOps = [c \in ConnIds |-> <<>>]
  /\ rlMsg = [c \in ConnIds |-> <<>>]
  /\ wsClients = {}
  /\ bcPc = "run"
  /\ bcTodo = {}
  /\ bcChan = 0
  /\ bcPayload = 0
  /\ bcOut = <<>>
  /\ bcCount = 0
  /\ bcDropped = {}
  /\ bcClient = 0
  /\ bcIds = <<>>
  /\ runPc = "serving"
  /\ wsCrashed = FALSE

\* jlink_rtt_server.sh:423-450  the server once two clients have connected and both
\* handshakes are over, each client with the subscriptions subs
InitClientsWith(subs) ==
  /\ cancelled = FALSE
  /\ HubOff /\ LisOff /\ PipeOff /\ ProtoOff /\ RaceOff /\ FwOff
  /\ imageEnabled \in BOOLEAN
  /\ imPc = IF imageEnabled THEN "run" ELSE "off"
  /\ imTodo = {}
  /\ imClient = 0
  /\ imIds = <<>>
  /\ imCount = 0
  /\ wsPc = [c \in ClientIds |-> "loops"]
  /\ wlPc = [c \in ClientIds |-> "run"]
  /\ wlMsg = [c \in ClientIds |-> <<>>]
  /\ wsWire = [c \in ClientIds |-> <<[kind |-> "serverInfo"],
                                     [kind |-> "advertise", channels |-> advertise]>>]
  /\ wsSend = [c \in ClientIds |-> <<>>]
  /\ wsSendOpen = [c \in ClientIds |-> TRUE]
  /\ wsOnce = [c \in ClientIds |-> FALSE]
  /\ wsCloses = [c \in ClientIds |-> 0]
  /\ wsSubs = [c \in ClientIds |-> subs]
  /\ rlOps = [c \in ClientIds |-> <<>>]
  /\ rlMsg = [c \in ClientIds |-> <<>>]
  /\ wsClients = ClientIds
  /\ bcPc = "run"
  /\ bcTodo = {}
  /\ bcChan = 0
  /\ bcPayload = 0
  /\ bcOut = <<>>
  /\ bcCount = 0
  /\ bcDropped = {}
  /\ bcClient = 0
  /\ bcIds = <<>>
  /\ runPc = "serving"
  /\ wsCrashed = FALSE

\* two connected clients that have not subscribed yet
InitClients == InitClientsWith(NoSubs)

\* a server whose image file is missing or empty: NewServer leaves the image channel off
InitNoImage == InitClients /\ ~imageEnabled

\* a server with no image to publish, both clients subscribed to the packet channel
InitSubscribed == InitClientsWith(1 :> ChannelID) /\ ~imageEnabled

otherVars == <<cancelled, hubVars, lisVars, pipeVars, protoVars, raceVars, fwVars>>

bridgeRest == <<otherVars, bcClient, bcIds, bcPayload, imVars, rlVars>>

\* jlink_rtt_server.sh:449-450  go c.writeLoop(); c.readLoop(...): after both handshake messages
LoopsStarted(c) == wsPc[c] = "loops"

\* a handleWS that starts the loops right after the upgrade, before the handshake
HandleWSUpgradeStartsLoops(c) ==
  /\ ~wsCrashed /\ wsPc[c] = "idle" /\ runPc = "serving"
  /\ wsPc' = [wsPc EXCEPT ![c] = "loops"]
  /\ wlPc' = [wlPc EXCEPT ![c] = "run"]
  /\ wsSendOpen' = [wsSendOpen EXCEPT ![c] = TRUE]
  /\ wsClients' = wsClients \cup {c}
  /\ UNCHANGED <<bridgeRest, wlMsg, wsWire, wsSend, wsOnce, wsCloses, wsSubs, bcVars, runPc,
                 wsCrashed>>

\* jlink_rtt_server.sh:430-436  Upgrade succeeds, newClient, addClient
HandleWSUpgrade(c) ==
  /\ ~wsCrashed /\ wsPc[c] = "idle" /\ runPc = "serving"
  /\ wsPc' = [wsPc EXCEPT ![c] = "info"]
  /\ wsSendOpen' = [wsSendOpen EXCEPT ![c] = TRUE]
  /\ wsClients' = wsClients \cup {c}
  /\ UNCHANGED <<bridgeRest, wlPc, wlMsg, wsWire, wsSend, wsOnce, wsCloses, wsSubs, bcVars, runPc,
                 wsCrashed>>

\* jlink_rtt_server.sh:430-433  Upgrade fails: handleWS returns, no client was made
HandleWSUpgradeFails(c) ==
  /\ ~wsCrashed /\ wsPc[c] = "idle" /\ runPc = "serving"
  /\ wsPc' = [wsPc EXCEPT ![c] = "rejected"]
  /\ UNCHANGED <<bridgeRest, wlPc, wlMsg, wsWire, wsSend, wsSendOpen, wsOnce, wsCloses, wsSubs,
                 wsClients, bcVars, runPc, wsCrashed>>

\* jlink_rtt_server.sh:438-442  conn.WriteJSON(s.serverInfo())
SendServerInfo(c, ok) ==
  /\ ~wsCrashed /\ wsPc[c] = "info"
  /\ IF ok /\ wsSendOpen[c]
       THEN /\ wsWire' = [wsWire EXCEPT ![c] = Append(@, [kind |-> "serverInfo"])]
            /\ wsPc' = [wsPc EXCEPT ![c] = "advertise"]
       ELSE /\ wsPc' = [wsPc EXCEPT ![c] = "close"]
            /\ UNCHANGED wsWire
  /\ UNCHANGED <<bridgeRest, wlPc, wlMsg, wsSend, wsSendOpen, wsOnce, wsCloses, wsSubs, wsClients,
                 bcVars, runPc, wsCrashed>>

\* jlink_rtt_server.sh:443-449  conn.WriteJSON(s.advertise()), then the loops are started
SendAdvertise(c, ok) ==
  /\ ~wsCrashed /\ wsPc[c] = "advertise"
  /\ IF ok /\ wsSendOpen[c]
       THEN /\ wsWire' = [wsWire EXCEPT ![c] =
                            Append(@, [kind |-> "advertise", channels |-> advertise])]
            /\ wsPc' = [wsPc EXCEPT ![c] = "loops"]
            /\ wlPc' = [wlPc EXCEPT ![c] = "run"]
       ELSE /\ wsPc' = [wsPc EXCEPT ![c] = "close"]
            /\ UNCHANGED <<wsWire, wlPc>>
  /\ UNCHANGED <<bridgeRest, wlMsg, wsSend, wsSendOpen, wsOnce, wsCloses, wsSubs, wsClients,
                 bcVars, runPc, wsCrashed>>

\* jlink_rtt_server.sh:838-876  readLoop reads a message of the client and handles it:
\* the first addSub or removeSub call of the message is made, the rest is left to the
\* range loop
ReadLoopMessage(c, msg) ==
  /\ ~wsCrashed /\ LoopsStarted(c) /\ wsSendOpen[c]
  /\ rlOps[c] = <<>>
  /\ LET ops == readLoop(msg) IN
       IF ops = <<>> THEN UNCHANGED <<wsSubs, rlVars>>
       ELSE /\ wsSubs' = [wsSubs EXCEPT ![c] = readLoopCall(@, Head(ops), supportedChannels)]
            /\ rlOps' = [rlOps EXCEPT ![c] = Tail(ops)]
            /\ rlMsg' = [rlMsg EXCEPT ![c] = IF Tail(ops) = <<>> THEN <<>>
                                             ELSE [msg |-> msg, before |-> wsSubs[c]]]
  /\ UNCHANGED <<otherVars, bcClient, bcIds, bcPayload, imVars, wsPc, wlPc, wlMsg, wsWire, wsSend,
                 wsSendOpen, wsOnce, wsCloses, wsClients, bcVars, runPc, wsCrashed>>

\* jlink_rtt_server.sh:861-865,871-873  the range loop over the entries of the message in
\* hand makes its next addSub or removeSub call
ReadLoopNext(c) ==
  /\ ~wsCrashed /\ LoopsStarted(c)
  /\ rlOps[c] # <<>>
  /\ wsSubs' = [wsSubs EXCEPT ![c] = readLoopCall(@, Head(rlOps[c]), supportedChannels)]
  /\ rlOps' = [rlOps EXCEPT ![c] = Tail(@)]
  /\ rlMsg' = [rlMsg EXCEPT ![c] = IF Tail(rlOps[c]) = <<>> THEN <<>> ELSE @]
  /\ UNCHANGED <<otherVars, bcClient, bcIds, bcPayload, imVars, wsPc, wlPc, wlMsg, wsWire, wsSend,
                 wsSendOpen, wsOnce, wsCloses, wsClients, bcVars, runPc, wsCrashed>>

\* jlink_rtt_server.sh:840-843  ReadMessage fails: the peer left or the link broke
ReadLoopReturns(c) ==
  /\ ~wsCrashed /\ LoopsStarted(c) /\ wsSendOpen[c]
  /\ rlOps[c] = <<>>
  /\ wsPc' = [wsPc EXCEPT ![c] = "close"]
  /\ UNCHANGED <<bridgeRest, wlPc, wlMsg, wsWire, wsSend, wsSendOpen, wsOnce, wsCloses, wsSubs,
                 wsClients, bcVars, runPc, wsCrashed>>

\* jlink_rtt_server.sh:840-843,924  ReadMessage fails because writeLoop closed the connection
ReadLoopConnClosed(c) ==
  /\ ~wsCrashed /\ LoopsStarted(c) /\ ~wsSendOpen[c]
  /\ rlOps[c] = <<>>
  /\ wsPc' = [wsPc EXCEPT ![c] = "close"]
  /\ UNCHANGED <<bridgeRest, wlPc, wlMsg, wsWire, wsSend, wsSendOpen, wsOnce, wsCloses, wsSubs,
                 wsClients, bcVars, runPc, wsCrashed>>

\* a close without the once: every call closes the send queue
closeUnguarded(c) ==
  /\ wsOnce' = [wsOnce EXCEPT ![c] = TRUE]
  /\ wsCloses' = [wsCloses EXCEPT ![c] = @ + 1]
  /\ wsSendOpen' = [wsSendOpen EXCEPT ![c] = FALSE]

\* jlink_rtt_server.sh:921-926  c.once.Do: close(c.send) and conn.Close() on the first call
close(c) ==
  IF wsOnce[c] THEN UNCHANGED <<wsOnce, wsCloses, wsSendOpen>>
  ELSE /\ wsOnce' = [wsOnce EXCEPT ![c] = TRUE]
       /\ wsCloses' = [wsCloses EXCEPT ![c] = @ + 1]
       /\ wsSendOpen' = [wsSendOpen EXCEPT ![c] = FALSE]

\* jlink_rtt_server.sh:439,444,452  handleWS calls c.close()
HandleWSClose(c) ==
  /\ ~wsCrashed /\ wsPc[c] = "close"
  /\ close(c)
  /\ wsPc' = [wsPc EXCEPT ![c] = "remove"]
  /\ UNCHANGED <<bridgeRest, wlPc, wlMsg, wsWire, wsSend, wsSubs, wsClients, bcVars, runPc,
                 wsCrashed>>

\* jlink_rtt_server.sh:440,445,453,811-815  s.removeClient(c)
HandleWSRemove(c) ==
  /\ ~wsCrashed /\ wsPc[c] = "remove"
  /\ wsClients' = wsClients \ {c}
  /\ wsPc' = [wsPc EXCEPT ![c] = "closed"]
  /\ UNCHANGED <<bridgeRest, wlPc, wlMsg, wsWire, wsSend, wsSendOpen, wsOnce, wsCloses, wsSubs,
                 bcVars, runPc, wsCrashed>>

\* a writeLoop that takes the newest message of the queue
WriteLoopTakeNewest(c) ==
  /\ ~wsCrashed /\ wlPc[c] = "run"
  /\ wsSend[c] # <<>>
  /\ wsSend' = [wsSend EXCEPT ![c] = SubSeq(@, 1, Len(@) - 1)]
  /\ wlMsg' = [wlMsg EXCEPT ![c] = <<wsSend[c][Len(wsSend[c])]>>]
  /\ wlPc' = [wlPc EXCEPT ![c] = "write"]
  /\ UNCHANGED <<bridgeRest, wsPc, wsWire, wsSendOpen, wsOnce, wsCloses, wsSubs, wsClients,
                 bcVars, runPc, wsCrashed>>

\* jlink_rtt_server.sh:879  for msg := range c.send: writeLoop takes the message at the
\* front of the queue
WriteLoopTake(c) ==
  /\ ~wsCrashed /\ wlPc[c] = "run"
  /\ wsSend[c] # <<>>
  /\ wsSend' = [wsSend EXCEPT ![c] = Tail(@)]
  /\ wlMsg' = [wlMsg EXCEPT ![c] = <<Head(wsSend[c])>>]
  /\ wlPc' = [wlPc EXCEPT ![c] = "write"]
  /\ UNCHANGED <<bridgeRest, wsPc, wsWire, wsSendOpen, wsOnce, wsCloses, wsSubs, wsClients,
                 bcVars, runPc, wsCrashed>>

\* jlink_rtt_server.sh:880  c.conn.WriteMessage of the message in hand as a binary frame;
\* the write fails on a broken or closed connection
WriteLoopWrite(c, ok) ==
  /\ ~wsCrashed /\ wlPc[c] = "write"
  /\ wlMsg' = [wlMsg EXCEPT ![c] = <<>>]
  /\ IF ok /\ wsSendOpen[c]
       THEN /\ wsWire' = [wsWire EXCEPT ![c] = Append(@, Head(wlMsg[c]))]
            /\ wlPc' = [wlPc EXCEPT ![c] = "run"]
       ELSE /\ wlPc' = [wlPc EXCEPT ![c] = "close"]
            /\ UNCHANGED wsWire
  /\ UNCHANGED <<bridgeRest, wsPc, wsSend, wsSendOpen, wsOnce, wsCloses, wsSubs, wsClients,
                 bcVars, runPc, wsCrashed>>

\* jlink_rtt_server.sh:881-882  after a failed write: c.close(); return
WriteLoopClose(c) ==
  /\ ~wsCrashed /\ wlPc[c] = "close"
  /\ close(c)
  /\ wlPc' = [wlPc EXCEPT ![c] = "closed"]
  /\ UNCHANGED <<bridgeRest, wlMsg, wsPc, wsWire, wsSend, wsSubs, wsClients, bcVars, runPc,
                 wsCrashed>>

\* jlink_rtt_server.sh:879  range over the closed, drained c.send ends
WriteLoopEnds(c) ==
  /\ ~wsCrashed /\ wlPc[c] = "run"
  /\ wsSend[c] = <<>> /\ ~wsSendOpen[c]
  /\ wlPc' = [wlPc EXCEPT ![c] = "done"]
  /\ UNCHANGED <<bridgeRest, wlMsg, wsPc, wsWire, wsSend, wsSendOpen, wsOnce, wsCloses, wsSubs,
                 wsClients, bcVars, runPc, wsCrashed>>

\* jlink_rtt_server.sh:576-580,585-619  broadcastLoop takes a packet from the hub;
\* broadcastPacket derives its outbound messages
BroadcastPacket(pkt) ==
  /\ ~wsCrashed /\ bcPc = "run"
  /\ bcTodo = {} /\ bcClient = 0 /\ bcOut = <<>>
  /\ bcCount < MaxWsPackets
  /\ bcCount' = bcCount + 1
  /\ bcOut' = outbound(pkt)
  /\ UNCHANGED <<bridgeRest, connVars, bcPc, bcTodo, bcChan, bcDropped, runPc, wsCrashed>>

\* jlink_rtt_server.sh:621-628  publishJSONToChannel: json.Marshal; when it fails the call
\* returns and nobody is sent the message, otherwise the clients are snapshotted
PublishJSONToChannel ==
  /\ ~wsCrashed /\ bcPc = "run"
  /\ bcTodo = {} /\ bcClient = 0 /\ bcOut # <<>>
  /\ bcOut' = Tail(bcOut)
  /\ IF Head(bcOut).marshals
       THEN /\ bcChan' = Head(bcOut).chan
            /\ bcPayload' = Head(bcOut).payload
            /\ bcTodo' = wsClients
            /\ bcDropped' = {}
       ELSE UNCHANGED <<bcChan, bcPayload, bcTodo, bcDropped>>
  /\ UNCHANGED <<otherVars, bcClient, bcIds, imVars, rlVars, connVars, bcPc, bcCount, runPc,
                 wsCrashed>>

\* jlink_rtt_server.sh:629-630  for _, c := range clients: subIDs := c.subIDsForChannel(
\* channelID), the copy of the matching ids made under the read lock, in map order
SnapshotSubIDs(c, order) ==
  /\ ~wsCrashed /\ c \in bcTodo /\ bcClient = 0
  /\ order \in Orders(subIDsForChannel(wsSubs[c], bcChan))
  /\ bcTodo' = bcTodo \ {c}
  /\ bcIds' = order
  /\ bcClient' = IF order = <<>> THEN 0 ELSE c
  /\ UNCHANGED <<otherVars, bcPayload, imVars, rlVars, connVars, bcPc, bcChan, bcOut,
                 bcCount, bcDropped, runPc, wsCrashed>>

\* a broadcast whose send waits for room in the client's queue
OfferFrameBlocking ==
  /\ ~wsCrashed /\ bcClient # 0 /\ bcIds # <<>>
  /\ Len(wsSend[bcClient]) < SendBuf
  /\ LET c == bcClient
         one == trySend(wsSend[c], wsSendOpen[c], Frame(Head(bcIds), bcChan, bcPayload)) IN
       /\ wsSend' = [wsSend EXCEPT ![c] = one.q]
       /\ bcDropped' = IF wsSendOpen[c] /\ ~one.taken THEN bcDropped \cup {c} ELSE bcDropped
       /\ wsCrashed' = (wsCrashed \/ one.panic)
  /\ bcIds' = Tail(bcIds)
  /\ bcClient' = IF Tail(bcIds) = <<>> THEN 0 ELSE bcClient
  /\ UNCHANGED <<otherVars, bcPayload, imVars, rlVars, wsPc, wlPc, wlMsg, wsWire, wsSendOpen,
                 wsOnce, wsCloses, wsSubs, wsClients, bcPc, bcTodo, bcChan, bcOut, bcCount,
                 runPc>>

\* jlink_rtt_server.sh:631-634  for _, subID := range subIDs: EncodeMessageData, c.trySend
OfferFrame ==
  /\ ~wsCrashed /\ bcClient # 0 /\ bcIds # <<>>
  /\ LET c == bcClient
         one == trySend(wsSend[c], wsSendOpen[c], Frame(Head(bcIds), bcChan, bcPayload)) IN
       /\ wsSend' = [wsSend EXCEPT ![c] = one.q]
       /\ bcDropped' = IF wsSendOpen[c] /\ ~one.taken THEN bcDropped \cup {c} ELSE bcDropped
       /\ wsCrashed' = (wsCrashed \/ one.panic)
  /\ bcIds' = Tail(bcIds)
  /\ bcClient' = IF Tail(bcIds) = <<>> THEN 0 ELSE bcClient
  /\ UNCHANGED <<otherVars, bcPayload, imVars, rlVars, wsPc, wlPc, wlMsg, wsWire, wsSendOpen,
                 wsOnce, wsCloses, wsSubs, wsClients, bcPc, bcTodo, bcChan, bcOut, bcCount,
                 runPc>>

\* jlink_rtt_server.sh:574-575  broadcastLoop: case <-ctx.Done(): return
BroadcastStop ==
  /\ ~wsCrashed /\ bcPc = "run"
  /\ cancelled
  /\ bcTodo = {} /\ bcClient = 0 /\ bcOut = <<>>
  /\ bcPc' = "done"
  /\ UNCHANGED <<bridgeRest, connVars, bcTodo, bcChan, bcOut, bcCount, bcDropped, runPc,
                 wsCrashed>>

\* jlink_rtt_server.sh:536-555,621-628  imageLoop calls publishImage when it starts and on
\* every tick: the image message marshals, publishJSONToChannel snapshots the clients
PublishImage ==
  /\ ~wsCrashed /\ imPc = "run"
  /\ imTodo = {} /\ imClient = 0
  /\ imCount < MaxImages
  /\ imCount' = imCount + 1
  /\ imTodo' = wsClients
  /\ UNCHANGED <<otherVars, bcClient, bcIds, bcPayload, rlVars, connVars, bcVars,
                 imageEnabled, imPc, imClient, imIds, runPc, wsCrashed>>

\* jlink_rtt_server.sh:629-630  publishJSONToChannel of the image loop: the ids of one
\* client of its snapshot that are bound to the image channel
ImageSnapshotSubIDs(c, order) ==
  /\ ~wsCrashed /\ c \in imTodo /\ imClient = 0
  /\ order \in Orders(subIDsForChannel(wsSubs[c], ImageChannelID))
  /\ imTodo' = imTodo \ {c}
  /\ imIds' = order
  /\ imClient' = IF order = <<>> THEN 0 ELSE c
  /\ UNCHANGED <<otherVars, bcClient, bcIds, bcPayload, rlVars, connVars, bcVars,
                 imageEnabled, imPc, imCount, runPc, wsCrashed>>

\* jlink_rtt_server.sh:631-634  publishJSONToChannel of the image loop: EncodeMessageData,
\* c.trySend for the next id
ImageOfferFrame ==
  /\ ~wsCrashed /\ imClient # 0 /\ imIds # <<>>
  /\ LET c == imClient
         one == trySend(wsSend[c], wsSendOpen[c],
                        Frame(Head(imIds), ImageChannelID, ImagePayload)) IN
       /\ wsSend' = [wsSend EXCEPT ![c] = one.q]
       /\ wsCrashed' = (wsCrashed \/ one.panic)
  /\ imIds' = Tail(imIds)
  /\ imClient' = IF Tail(imIds) = <<>> THEN 0 ELSE imClient
  /\ UNCHANGED <<otherVars, bcClient, bcIds, bcPayload, rlVars, wsPc, wlPc, wlMsg, wsWire,
                 wsSendOpen, wsOnce, wsCloses, wsSubs, wsClients, bcVars, imageEnabled,
                 imPc, imTodo, imCount, runPc>>

\* jlink_rtt_server.sh:541-544  imageLoop, after its first publish: case <-ctx.Done(): return
ImageLoopStop ==
  /\ ~wsCrashed /\ imPc = "run"
  /\ cancelled
  /\ imCount > 0 /\ imTodo = {} /\ imClient = 0
  /\ imPc' = "done"
  /\ UNCHANGED <<otherVars, bcClient, bcIds, bcPayload, rlVars, connVars, bcVars,
                 imageEnabled, imTodo, imClient, imIds, imCount, runPc, wsCrashed>>

\* jlink_rtt_server.sh:404-407,415-419  ListenAndServe fails before any connection: Run
\* returns the error
RunServeError ==
  /\ ~wsCrashed /\ runPc = "serving"
  /\ \A c \in Conns : wsPc[c] = "idle"
  /\ runPc' = "failed"
  /\ UNCHANGED <<bridgeRest, connVars, bcVars, wsCrashed>>

\* jlink_rtt_server.sh:410-412  case <-ctx.Done(): httpServer.Shutdown closes the listener;
\* it neither closes nor waits for hijacked (WebSocket) connections
RunShutdown ==
  /\ ~wsCrashed /\ runPc = "serving"
  /\ cancelled
  /\ runPc' = "shutdown"
  /\ UNCHANGED <<bridgeRest, connVars, bcVars, wsCrashed>>

\* jlink_rtt_server.sh:412-414  Shutdown returns, within its 5 s context; return nil
RunReturn ==
  /\ ~wsCrashed /\ runPc = "shutdown"
  /\ runPc' = "returned"
  /\ UNCHANGED <<bridgeRest, connVars, bcVars, wsCrashed>>

\* the packets the hub delivers: a struct packet whose fields are finite and one with a
\* NaN field
DataPackets == {Packet({}, marshals, "none", 0) : marshals \in BOOLEAN}

\* a struct packet with a NaN value, a text packet, and a quaternion packet whose map
\* has finite x, y, z, w beside a NaN field
RoutePackets ==
  {Packet({}, FALSE, "none", 0), Packet({"text"}, TRUE, "none", 0),
   Packet({"quat"}, FALSE, "finite", 0)}

\* the struct packets, and the packets that give more than one answer: a quaternion
\* packet with raw Data whose payload spells a NaN; on a server whose text id is also
\* its quaternion id, a text whose payload holds a finite quaternion (record, log, marker
\* and transform go out); a TemperaturePacket under the text id whose float is a NaN
\* (record and log go out, the temperature does not marshal)
SlowPackets ==
  DataPackets \cup {Packet({"quat"}, TRUE, "nan", 0), Packet({"text", "quat"}, TRUE, "finite", 0),
                    Packet({"text", "temp"}, FALSE, "none", 0)}

\* the life cycle of connections on a server that relays packets (no image configured)
\* and on one that publishes its image while the hub is silent; both loops publish
\* together in NextRoute
NextBridge ==
  \/ Cancel
  \/ \E c \in Conns : HandleWSUpgrade(c)
  \/ \E c \in Conns : HandleWSUpgradeFails(c)
  \/ \E c \in Conns, ok \in BOOLEAN : SendServerInfo(c, ok)
  \/ \E c \in Conns, ok \in BOOLEAN : SendAdvertise(c, ok)
  \/ \E c \in Conns, msg \in SessionMsgs : ReadLoopMessage(c, msg)
  \/ \E c \in Conns : ReadLoopNext(c)
  \/ \E c \in Conns : ReadLoopReturns(c)
  \/ \E c \in Conns : ReadLoopConnClosed(c)
  \/ \E c \in Conns : HandleWSClose(c)
  \/ \E c \in Conns : HandleWSRemove(c)
  \/ \E c \in Conns : WriteLoopTake(c)
  \/ \E c \in Conns, ok \in BOOLEAN : WriteLoopWrite(c, ok)
  \/ \E c \in Conns : WriteLoopClose(c)
  \/ \E c \in Conns : WriteLoopEnds(c)
  \/ ~imageEnabled /\ bcCount < MaxBridgePackets
       /\ \E pkt \in DataPackets : BroadcastPacket(pkt)
  \/ PublishJSONToChannel
  \/ \E c \in Conns : \E order \in Orders(subIDsForChannel(wsSubs[c], bcChan)) :
       SnapshotSubIDs(c, order)
  \/ OfferFrame
  \/ BroadcastStop
  \/ PublishImage
  \/ \E c \in Conns : \E order \in Orders(subIDsForChannel(wsSubs[c], ImageChannelID)) :
       ImageSnapshotSubIDs(c, order)
  \/ ImageOfferFrame
  \/ ImageLoopStop
  \/ RunServeError
  \/ RunShutdown
  \/ RunReturn

SpecBridge == InitBridge /\ [][NextBridge]_vars

\* subscriptions: two connected clients send every kind of message, and leave
NextSubs ==
  \/ \E c \in ClientIds, msg \in WsMsgs : ReadLoopMessage(c, msg)
  \/ \E c \in ClientIds : ReadLoopNext(c)
  \/ \E c \in ClientIds : ReadLoopReturns(c)
  \/ \E c \in ClientIds : HandleWSClose(c)
  \/ \E c \in ClientIds : HandleWSRemove(c)

SpecSubs == InitClients /\ [][NextSubs]_vars

\* routing: connected clients subscribe and unsubscribe while the broadcast loop and the
\* image loop publish; the first client binds two ids to three channels and never takes
\* a frame, the second has a plain session and its write loop drains its queue
NextRoute ==
  \/ \E msg \in RouteMsgs : ReadLoopMessage(1, msg)
  \/ \E msg \in BridgeMsgs : ReadLoopMessage(2, msg)
  \/ ReadLoopNext(1)
  \/ \E pkt \in RoutePackets : BroadcastPacket(pkt)
  \/ PublishJSONToChannel
  \/ \E c \in ClientIds : \E order \in Orders(subIDsForChannel(wsSubs[c], bcChan)) :
       SnapshotSubIDs(c, order)
  \/ OfferFrame
  \/ PublishImage
  \/ \E c \in ClientIds : \E order \in Orders(subIDsForChannel(wsSubs[c], ImageChannelID)) :
       ImageSnapshotSubIDs(c, order)
  \/ ImageOfferFrame

SpecRoute == InitClients /\ [][NextRoute]_vars

\* a slow client: the first client subscribes twice and never takes a frame, the second
\* has a plain session and its write loop drains its queue
NextDrop ==
  \/ \E msg \in SlowMsgs : ReadLoopMessage(1, msg)
  \/ \E msg \in BridgeMsgs : ReadLoopMessage(2, msg)
  \/ WriteLoopTake(2)
  \/ WriteLoopWrite(2, TRUE)
  \/ \E pkt \in SlowPackets : BroadcastPacket(pkt)
  \/ PublishJSONToChannel
  \/ \E c \in ClientIds : \E order \in Orders(subIDsForChannel(wsSubs[c], bcChan)) :
       SnapshotSubIDs(c, order)
  \/ OfferFrame

SpecDrop == InitNoImage /\ [][NextDrop]_vars

\* the scheduler runs the broadcast loop: a publish in hand is carried on
FairSpecDrop ==
  /\ SpecDrop
  /\ WF_vars(PublishJSONToChannel)
  /\ WF_vars(\E c \in ClientIds : \E order \in Orders(subIDsForChannel(wsSubs[c], bcChan)) :
               SnapshotSubIDs(c, order))
  /\ WF_vars(OfferFrame)

\* failures: subscribed clients whose reads and writes can fail while the server publishes
NextClients ==
  \/ \E c \in ClientIds : ReadLoopReturns(c)
  \/ \E c \in ClientIds : ReadLoopConnClosed(c)
  \/ \E c \in ClientIds : HandleWSClose(c)
  \/ \E c \in ClientIds : HandleWSRemove(c)
  \/ \E c \in ClientIds : WriteLoopTake(c)
  \/ \E c \in ClientIds, ok \in BOOLEAN : WriteLoopWrite(c, ok)
  \/ \E c \in ClientIds : WriteLoopClose(c)
  \/ \E c \in ClientIds : WriteLoopEnds(c)
  \/ \E pkt \in DataPackets : BroadcastPacket(pkt)
  \/ PublishJSONToChannel
  \/ \E c \in ClientIds : \E order \in Orders(subIDsForChannel(wsSubs[c], bcChan)) :
       SnapshotSubIDs(c, order)
  \/ OfferFrame

SpecClients == InitSubscribed /\ [][NextClients]_vars

\* the scheduler runs every goroutine that can take a step: the broadcast loop carries
\* a publish on, a write loop whose write failed calls close, a read on a closed
\* connection fails and handleWS goes on to close and remove the client
FairSpecClients ==
  /\ SpecClients
  /\ WF_vars(PublishJSONToChannel)
  /\ WF_vars(\E c \in ClientIds : \E order \in Orders(subIDsForChannel(wsSubs[c], bcChan)) :
               SnapshotSubIDs(c, order))
  /\ WF_vars(OfferFrame)
  /\ \A c \in ClientIds :
       /\ WF_vars(WriteLoopClose(c))
       /\ WF_vars(ReadLoopConnClosed(c))
       /\ WF_vars(HandleWSClose(c))
       /\ WF_vars(HandleWSRemove(c))

\* C20: what has been written to an accepted connection is serverInfo first, advertise
\* second and binary frames only after both; once the handshake is over both were sent.
C20_HandshakeBeforeData ==
  \A c \in Conns :
    /\ Len(wsWire[c]) >= 1 => wsWire[c][1].kind = "serverInfo"
    /\ Len(wsWire[c]) >= 2 => wsWire[c][2].kind = "advertise"
    /\ \A i \in 1..Len(wsWire[c]) : wsWire[c][i].kind = "binary" => i >= 3
    /\ \A i \in 3..Len(wsWire[c]) : wsWire[c][i].kind = "binary"
    /\ wsPc[c] = "loops" => Len(wsWire[c]) >= 2

\* a connection received serverInfo, advertise and then a binary frame
C20_Witness ==
  \E c \in Conns :
    /\ Len(wsWire[c]) = 3
    /\ wsWire[c][1].kind = "serverInfo" /\ wsWire[c][2].kind = "advertise"
    /\ wsWire[c][3].kind = "binary"

\* ------------------------------------------------------------- routing properties
\* the channels the client was told of in its advertise message
Advertised(c) == {wsWire[c][2].channels[i] : i \in DOMAIN wsWire[c][2].channels}

\* the entries of a subscribe message that name an advertised channel
Accepted(msg, adv) ==
  {i \in DOMAIN msg.Subscriptions : msg.Subscriptions[i].ChannelID \in adv}

\* new is old with the accepted entries of the subscribe message added, the last entry
\* of an id winning
SubscribeEffect(old, msg, adv, new) ==
  LET ids == {msg.Subscriptions[i].ID : i \in Accepted(msg, adv)} IN
    /\ DOMAIN new = DOMAIN old \cup ids
    /\ \A id \in DOMAIN new :
         IF id \in ids
           THEN \E i \in Accepted(msg, adv) :
                  /\ msg.Subscriptions[i].ID = id
                  /\ new[id] = msg.Subscriptions[i].ChannelID
                  /\ \A j \in Accepted(msg, adv) : msg.Subscriptions[j].ID = id => j <= i
           ELSE new[id] = old[id]

\* new is old without the ids of the unsubscribe message
UnsubscribeEffect(old, msg, new) ==
  /\ DOMAIN new = DOMAIN old \ {msg.SubscriptionIDs[i] : i \in DOMAIN msg.SubscriptionIDs}
  /\ \A id \in DOMAIN new : new[id] = old[id]

\* the message is a well-formed text message with the given op
WellFormed(msg, op) == msg.type = "text" /\ msg.json /\ msg.body /\ msg.op = op

\* what a message of the client does to its subscription map
MessageEffect(old, msg, adv, new) ==
  IF WellFormed(msg, "subscribe") THEN SubscribeEffect(old, msg, adv, new)
  ELSE IF WellFormed(msg, "unsubscribe") THEN UnsubscribeEffect(old, msg, new)
  ELSE new = old

\* the number of entries of a well-formed subscribe or unsubscribe message
Entries(msg) ==
  IF WellFormed(msg, "subscribe") THEN Len(msg.Subscriptions)
  ELSE IF WellFormed(msg, "unsubscribe") THEN Len(msg.SubscriptionIDs)
  ELSE 0

\* what entry i of a message does to the subscription map: a subscribe entry binds its
\* id to its channel when the channel is advertised, an unsubscribe entry removes its id
EntryEffect(old, msg, i, adv, new) ==
  IF WellFormed(msg, "subscribe")
    THEN LET e == msg.Subscriptions[i] IN
           IF e.ChannelID \in adv
             THEN /\ DOMAIN new = DOMAIN old \cup {e.ID}
                  /\ new[e.ID] = e.ChannelID
                  /\ \A id \in DOMAIN old \ {e.ID} : new[id] = old[id]
             ELSE new = old
    ELSE /\ DOMAIN new = DOMAIN old \ {msg.SubscriptionIDs[i]}
         /\ \A id \in DOMAIN new : new[id] = old[id]

\* C21: a client's subscription map changes only in a step in which readLoop handles an
\* entry of a well-formed subscribe or unsubscribe message of that client; a subscribe
\* entry adds id -> channel for an advertised channel only, an unsubscribe entry removes
\* its id; once the last entry of a message is handled the map is the map before the
\* message with the advertised pairs added (the given ids removed), and unknown ops,
\* malformed JSON and non-text frames leave the map as it was.
C21_SubsChangeOnlyByOwnMessages ==
  [][\A c \in ClientIds :
       /\ wsSubs'[c] # wsSubs[c] =>
            \/ \E msg \in WsMsgs :
                 /\ ReadLoopMessage(c, msg)
                 /\ WellFormed(msg, "subscribe") \/ WellFormed(msg, "unsubscribe")
            \/ /\ ReadLoopNext(c)
               /\ WellFormed(rlMsg[c].msg, "subscribe") \/ WellFormed(rlMsg[c].msg, "unsubscribe")
       /\ \A msg \in WsMsgs :
            ReadLoopMessage(c, msg) =>
              /\ Len(rlOps'[c]) = Max(Entries(msg) - 1, 0)
              /\ IF Entries(msg) <= 1
                   THEN MessageEffect(wsSubs[c], msg, Advertised(c), wsSubs'[c])
                   ELSE EntryEffect(wsSubs[c], msg, 1, Advertised(c), wsSubs'[c])
       /\ ReadLoopNext(c) =>
            LET msg == rlMsg[c].msg IN
              /\ Len(rlOps'[c]) = Len(rlOps[c]) - 1
              /\ EntryEffect(wsSubs[c], msg, Entries(msg) - Len(rlOps[c]) + 1, Advertised(c),
                             wsSubs'[c])
              /\ rlOps'[c] = <<>> =>
                   MessageEffect(rlMsg[c].before, msg, Advertised(c), wsSubs'[c])
    ]_vars

\* on a server without the image channel the first client's map holds exactly the
\* advertised half of a subscribe message that also named the image channel; the second
\* client's map is its own
C21_Witness ==
  /\ ~imageEnabled
  /\ wsSubs[1] = (2 :> LogChannelID)
  /\ wsSubs[2] = (1 :> ChannelID)
  /\ rlOps[1] = <<>>

\* the ids of a sequence, and whether it names no id twice
IdsOf(ids) == {ids[i] : i \in DOMAIN ids}

NoRepeat(ids) == \A i, j \in DOMAIN ids : ids[i] = ids[j] => i = j

\* what one c.trySend of a frame does to the send queues: the frame goes to the back of
\* the queue of client c when that queue is open and has room, and no queue changes otherwise
OfferedTo(c, frame) ==
  /\ wsSend'[c] = IF wsSendOpen[c] /\ Len(wsSend[c]) < SendBuf
                    THEN Append(wsSend[c], frame) ELSE wsSend[c]
  /\ \A d \in ClientIds \ {c} : wsSend'[d] = wsSend[d]

\* C22: for each outbound message on channel C (a message that marshals; one that does
\* not is sent to nobody) the server goes through the connected clients; for each it
\* takes exactly the ids of that client's subscriptions bound to C, each once, and then
\* makes one offer per id taken, to that client's queue, of a frame carrying the id and
\* the message; a queue receives a frame in no other way, so nothing is offered for a
\* subscription bound to another channel. The image loop does the same on the image
\* channel.
C22_OneFramePerSubscription ==
  [][/\ (bcOut # <<>> /\ bcOut' = Tail(bcOut)) =>
          /\ wsSend' = wsSend
          /\ IF Head(bcOut).marshals
               THEN bcTodo' = wsClients /\ bcChan' = Head(bcOut).chan
               ELSE bcTodo' = {} /\ bcClient' = 0
     /\ \A c \in ClientIds :
          /\ (c \in bcTodo /\ c \notin bcTodo') =>
               /\ IdsOf(bcIds') = {id \in DOMAIN wsSubs[c] : wsSubs[c][id] = bcChan}
               /\ NoRepeat(bcIds')
               /\ bcClient' = IF bcIds' = <<>> THEN 0 ELSE c
               /\ bcTodo' = bcTodo \ {c}
               /\ wsSend' = wsSend
          /\ (c \in imTodo /\ c \notin imTodo') =>
               /\ IdsOf(imIds') = {id \in DOMAIN wsSubs[c] : wsSubs[c][id] = ImageChannelID}
               /\ NoRepeat(imIds')
               /\ imClient' = IF imIds' = <<>> THEN 0 ELSE c
               /\ imTodo' = imTodo \ {c}
               /\ wsSend' = wsSend
          /\ Len(wsSend'[c]) > Len(wsSend[c]) =>
               \/ bcClient = c /\ bcIds # <<>> /\ bcIds' = Tail(bcIds)
               \/ imClient = c /\ imIds # <<>> /\ imIds' = Tail(imIds)
     /\ (bcIds # <<>> /\ bcIds' # bcIds) =>
          /\ bcIds' = Tail(bcIds)
          /\ bcClient' = IF bcIds' = <<>> THEN 0 ELSE bcClient
          /\ OfferedTo(bcClient, Frame(Head(bcIds), bcChan, bcPayload))
     /\ (imIds # <<>> /\ imIds' # imIds) =>
          /\ imIds' = Tail(imIds)
          /\ imClient' = IF imIds' = <<>> THEN 0 ELSE imClient
          /\ OfferedTo(imClient, Frame(Head(imIds), ImageChannelID, ImagePayload))
    ]_vars

\* a text packet was published on the packet channel and on the log channel: the first
\* client, subscribed to both, holds one frame of each; the second, subscribed to the
\* packet channel, holds that frame only
C22_Witness ==
  /\ wsSubs[1] = (1 :> ChannelID @@ 2 :> LogChannelID)
  /\ wsSubs[2] = (1 :> ChannelID)
  /\ wsSend[1] = <<Frame(1, ChannelID, 0), Frame(2, LogChannelID, 0)>>
  /\ wsSend[2] = <<Frame(1, ChannelID, 0)>>
  /\ bcCount = 1 /\ bcChan = LogChannelID /\ bcTodo = {} /\ bcClient = 0 /\ bcOut = <<>>
  /\ imCount = 0

\* C23: an offer to a client whose queue is full drops the frame for that client only:
\* every queue stays as it was and the loop goes on to the next id; every client of the
\* snapshot is served, and every publish the broadcast loop began is finished, so that
\* the loop takes the next packet, whether or not the clients drain their queues.
C23_BroadcastNeverWaits ==
  /\ [][(bcClient # 0 /\ bcIds # <<>> /\ bcIds' = Tail(bcIds)
           /\ Len(wsSend[bcClient]) = SendBuf) =>
            /\ wsSend' = wsSend
            /\ bcTodo' = bcTodo
            /\ bcDropped' \subseteq bcDropped \cup {bcClient}]_vars
  /\ \A c \in ClientIds : (c \in bcTodo) ~> (c \notin bcTodo)
  /\ \A c \in ClientIds : (bcClient = c) ~> (bcClient # c)
  /\ (bcTodo # {} \/ bcClient # 0 \/ bcOut # <<>>)
       ~> (bcTodo = {} /\ bcClient = 0 /\ bcOut = <<>>)

\* the last publish found the first client's queue full and dropped its frame, and put
\* the frame on the queue of the second client, whose write loop had sent the frame before
C23_Witness ==
  /\ bcDropped = {1}
  /\ bcTodo = {} /\ bcClient = 0 /\ bcOut = <<>> /\ bcCount = MaxWsPackets
  /\ Len(wsSend[1]) = SendBuf
  /\ wsSend[2] = <<Frame(1, ChannelID, 0)>>
  /\ Len(wsWire[2]) = 3

\* ------------------------------------------------------------- client life cycle
\* C24: a client's send queue is never closed twice, whoever calls close and however
\* often; once handleWS has returned for an accepted connection its send queue has been
\* closed exactly once, also when the write loop called close as well.
C24_SendQueueClosedOnce ==
  \A c \in Conns :
    /\ wsCloses[c] <= 1
    /\ wsCloses[c] = 1 <=> ~wsSendOpen[c] /\ c \in DOMAIN wsOnce /\ wsOnce[c]
    /\ wsPc[c] \in {"remove", "closed"} => wsCloses[c] = 1
    /\ wlPc[c] = "closed" => wsCloses[c] = 1

\* the read loop ended and the write failed while the connection was open: handleWS and
\* writeLoop both called close, and the send queue was closed once
C24_Witness ==
  \E c \in Conns :
    /\ wsPc[c] \in {"remove", "closed"}
    /\ wlPc[c] = "closed"
    /\ wsCloses[c] = 1

\* C25: after a failed write the client's connection and send queue are closed and the
\* client leaves the server's client set; the failure leaves the other clients' queues,
\* connections and membership as they were, the process does not stop, and the clients
\* of every later publish are served.
C25_WriteFailureClosesThatClient ==
  /\ \A c \in ClientIds : (wlPc[c] = "close") ~> (c \notin wsClients /\ ~wsSendOpen[c])
  /\ [][\A c \in ClientIds :
          wlPc[c] \in {"write", "close"} /\ wlPc'[c] \in {"close", "closed"} /\ wlPc'[c] # wlPc[c] =>
            \A d \in ClientIds \ {c} :
              /\ wsSendOpen'[d] = wsSendOpen[d]
              /\ wsPc'[d] = wsPc[d] /\ wlPc'[d] = wlPc[d]
              /\ (d \in wsClients') = (d \in wsClients)
              /\ wsSubs'[d] = wsSubs[d]]_vars
  /\ []~wsCrashed
  /\ (bcTodo # {} \/ bcClient # 0) ~> (bcTodo = {} /\ bcClient = 0)

\* the first client's write failed and the client is gone; the second client, still
\* connected, was then offered and sent the frame of a later packet
C25_Witness ==
  /\ wlPc[1] = "closed" /\ wsPc[1] = "closed" /\ 1 \notin wsClients /\ ~wsSendOpen[1]
  /\ wsWire[1] = <<[kind |-> "serverInfo"], [kind |-> "advertise", channels |-> advertise]>>
  /\ wsClients = {2} /\ wsSendOpen[2] /\ wlPc[2] = "run"
  /\ bcCount = MaxWsPackets /\ bcTodo = {} /\ bcClient = 0 /\ bcOut = <<>>
  /\ Len(wsWire[2]) = 2 + MaxWsPackets

\* C34: the offer of a frame to a client whose send queue is already closed stops
\* nothing: the server does not crash, no queue changes, the loop goes on to the next id
\* and the broadcast goes on to the clients that are left until all have been served.
C34_OfferToClosedQueueIsDiscarded ==
  /\ []~wsCrashed
  /\ [][(bcClient # 0 /\ bcIds # <<>> /\ bcIds' = Tail(bcIds) /\ ~wsSendOpen[bcClient]) =>
            /\ ~wsCrashed'
            /\ wsSend' = wsSend
            /\ bcTodo' = bcTodo
            /\ bcPc' = bcPc]_vars
  /\ \A c \in ClientIds :
       (bcClient = c /\ ~wsSendOpen[c]) ~> (bcClient = 0 /\ bcTodo = {})

\* the broadcast has taken the ids of the first client, which has closed its queue
\* since, and has still to serve the second, which is open and subscribed to the channel
C34_Witness ==
  /\ bcClient = 1 /\ bcIds # <<>>
  /\ ~wsSendOpen[1] /\ wsOnce[1]
  /\ bcTodo = {2}
  /\ wsSendOpen[2] /\ subIDsForChannel(wsSubs[2], bcChan) # {}
  /\ ~wsCrashed

\* C26: once Run has returned after the cancellation, no connection is accepted and the
\* send queue of every client that is connected has been closed.
C26_ShutdownClosesClients ==
  runPc = "returned" => \A c \in Conns : /\ wsPc[c] \notin {"info", "advertise", "loops"}
                                         /\ c \in wsClients => ~wsSendOpen[c]

\* ------------------------------------------------------------- JSONL sink properties
\* the line of a record whose encoding succeeds
LineOf(pkt) == Marshal(jsonRecord(pkt)).line

IsTextLine(line) == line["id"] = formatID(textID)

\* C27: every line has ts, id and payload_hex and exactly one of text and
\* data: text and no data on a line of the text id, data and no text on any other line.
C27_ExactlyOneOfTextAndData ==
  \A i \in DOMAIN written :
    LET keys == DOMAIN written[i] IN
      /\ {"ts", "id", "payload_hex"} \subseteq keys
      /\ IsTextLine(written[i]) => "text" \in keys /\ "data" \notin keys
      /\ ~IsTextLine(written[i]) => "data" \in keys /\ "text" \notin keys

\* C28: a failed write loses its own line only: Encode tries every later
\* record, and a later record that encodes is given to the writer.
C28_FailedWriteLosesOneLine ==
  \A i \in DOMAIN sinkLog : sinkLog[i] # "latched"

\* C29 as stated: the subscription delivered r1..rn and was closed, nothing was cancelled
\* and Consume has returned: there are exactly n lines, the i-th the line of ri.
C29_WritesEveryLine ==
  sinkPc = "done" /\ ~cancelled =>
    /\ Len(written) = Len(published)
    /\ \A i \in DOMAIN written : written[i] = LineOf(published[i])

\* the lines of the records Encode has written, in order
RECURSIVE LinesWritten(_, _)
LinesWritten(recs, log) ==
  IF recs = <<>> THEN <<>>
  ELSE (IF Head(log) = "written" THEN <<LineOf(Head(recs))>> ELSE <<>>)
         \o LinesWritten(Tail(recs), Tail(log))

\* C29: the sink writes at most one line per record, in delivery order, each the line
\* of its record; up to the first write that fails, every record that can be encoded is
\* given to the writer; so there are n lines, the i-th for ri, when every record
\* encodes and no write fails. When the subscription is closed Consume returns, and
\* without cancellation it has then taken and encoded all n records.
C29_TakesEveryRecord ==
  /\ [](LET recs == received[SinkChan]
            encoded == Len(sinkLog)
        IN /\ encoded = Len(recs) - (IF sinkPc = "encode" THEN 1 ELSE 0)
           /\ written = LinesWritten(SubSeq(recs, 1, encoded), sinkLog)
           /\ \A i \in DOMAIN sinkLog :
                LET bad == Marshal(jsonRecord(recs[i])).err
                IN /\ sinkLog[i] = "written" => ~bad
                   /\ (\A j \in 1..(i - 1) : sinkLog[j] # "write") =>
                        (IF bad THEN sinkLog[i] = "marshal"
                                ELSE sinkLog[i] \in {"written", "write"})
           /\ (\A i \in DOMAIN sinkLog : sinkLog[i] = "written") =>
                written = [i \in 1..encoded |-> LineOf(recs[i])])
  /\ [](sinkPc = "done" /\ ~cancelled =>
          /\ chCloses[SinkChan] > 0
          /\ received[SinkChan] = published
          /\ Len(sinkLog) = Len(published))
  /\ (chCloses[SinkChan] > 0) ~> (sinkPc = "done")

\* three records delivered, then the close: the first written, the NaN struct not
\* encoded, the third written; Consume has returned without cancellation
C29_Witness ==
  /\ sinkPc = "done" /\ ~cancelled
  /\ Len(published) = 3
  /\ sinkLog = <<"written", "marshal", "written">>
  /\ written = <<LineOf(published[1]), LineOf(published[3])>>

\* ------------------------------------------------------------- EncodeMessageData
MaxPayloadLen == 2

\* messages.go:11
BinaryOpMessageData == 1

\* a uint32 is two 16-bit limbs and a uint64 four, low limb first
\* subscription ids: 7 (part_008:14), 0, 2^32 - 1 and 0x04030201
EncSubIDs == {<<7, 0>>, <<0, 0>>, <<Limb - 1, Limb - 1>>, <<513, 1027>>}

\* log times: 0x1122334455667788 (part_008:15), 0, 2^64 - 1 and 2^63
EncLogTimes ==
  {<<30600, 21862, 13124, 4386>>, <<0, 0, 0, 0>>,
   <<Limb - 1, Limb - 1, Limb - 1, Limb - 1>>, <<0, 0, 0, Limb \div 2>>}

EncBytes == {0, 170, 187}

EncPayloads == UNION {[1..n -> EncBytes] : n \in 0..MaxPayloadLen}

\* the bytes of a limb, low byte first
LimbBytes(limb) == <<limb % 256, limb \div 256>>

\* a PutUint32 that writes the high byte first
PutUint32BigEndian(v) ==
  <<v[2] \div 256, v[2] % 256, v[1] \div 256, v[1] % 256>>

\* messages.go:55  binary.LittleEndian.PutUint32
PutUint32(v) == LimbBytes(v[1]) \o LimbBytes(v[2])

\* messages.go:56  binary.LittleEndian.PutUint64
PutUint64(v) == LimbBytes(v[1]) \o LimbBytes(v[2]) \o LimbBytes(v[3]) \o LimbBytes(v[4])

\* messages.go:52-59
EncodeMessageData(subscriptionID, logTime, body) ==
  <<BinaryOpMessageData>> \o PutUint32(subscriptionID) \o PutUint64(logTime) \o body

InitEncode ==
  /\ cancelled = FALSE
  /\ HubOff /\ LisOff /\ PipeOff /\ RaceOff /\ BridgeOff /\ FwOff
  /\ fnPc = "idle"
  /\ fnIn = <<>>
  /\ fnOut = <<>>

\* part_008:17  frame := foxglove.EncodeMessageData(subID, logTime, payload)
EncodeMessageDataCall(subID, logTime, body) ==
  /\ fnPc = "idle"
  /\ fnIn' = [fn |-> "EncodeMessageData", subID |-> subID, logTime |-> logTime,
              body |-> body]
  /\ fnOut' = EncodeMessageData(subID, logTime, body)
  /\ fnPc' = "done"
  /\ UNCHANGED <<cancelled, hubVars, lisVars, pipeVars, raceVars, bridgeVars, fwVars>>

NextEncode ==
  \E subID \in EncSubIDs, logTime \in EncLogTimes, body \in EncPayloads :
    EncodeMessageDataCall(subID, logTime, body)

SpecEncode == InitEncode /\ [][NextEncode]_vars

\* C30: the frame has 13 + len(payload) bytes: 0x01, then the four bytes of subID low
\* byte first, then the eight bytes of logTime low byte first, then the payload as it
\* is; reading the two numbers back little-endian and taking the bytes from the 14th on
\* gives subID, logTime and payload again.
C30_MessageDataLayout ==
  fnPc = "done" /\ fnIn.fn = "EncodeMessageData" =>
    LET frame == fnOut
        sub == fnIn.subID
        time == fnIn.logTime
    IN /\ Len(frame) = 13 + Len(fnIn.body)
       /\ frame[1] = 1
       /\ \A k \in 1..2 : /\ frame[2 * k] = sub[k] % 256
                           /\ frame[2 * k + 1] = sub[k] \div 256
       /\ \A k \in 1..4 : /\ frame[2 * k + 4] = time[k] % 256
                           /\ frame[2 * k + 5] = time[k] \div 256
       /\ \A i \in 1..Len(fnIn.body) : frame[13 + i] = fnIn.body[i]
       /\ LimbsOf(SubSeq(frame, 2, 5)) = <<sub[1], sub[2], 0, 0>>
       /\ LimbsOf(SubSeq(frame, 6, 13)) = time
       /\ SubSeq(frame, 14, Len(frame)) = fnIn.body

\* part_008:12-35  subID 7, logTime 0x1122334455667788, payload AA BB
C30_Witness ==
  /\ fnPc = "done"
  /\ fnIn = [fn |-> "EncodeMessageData", subID |-> <<7, 0>>,
             logTime |-> <<30600, 21862, 13124, 4386>>, body |-> <<170, 187>>]
  /\ fnOut = <<1, 7, 0, 0, 0, 136, 119, 102, 85, 68, 51, 34, 17, 170, 187>>

\* ------------------------------------------------------------- hub program
Init ==
  /\ cancelled = FALSE
  /\ HubInit
  /\ LisOff
  /\ PipeOff
  /\ ProtoOff /\ RaceOff /\ BridgeOff /\ FwOff

Next ==
  \/ Cancel
  \/ HubCancel
  \/ \E c \in Chans, size \in BufArgs : SubscribeCall(c, size)
  \/ \E c \in Chans : HubRegister(c)
  \/ \E c \in AllChans : UnsubscribeCall(c)
  \/ \E c \in AllChans : HubUnregister(c)
  \/ HubBroadcast
  \/ \E c \in AllChans : HubOffer(c)
  \/ PublishCall
  \/ PublishReturn
  \/ \E c \in Chans : SubRead(c)

Spec == Init /\ [][Next]_vars

\* the scheduler runs every runnable goroutine: the hub actor takes a ready
\* broadcast, and a Publish whose send can proceed returns
FairSpec == Spec /\ WF_vars(HubBroadcast) /\ WF_vars(\E c \in AllChans : HubOffer(c)) /\ WF_vars(PublishReturn)

\* the hub actor, while it runs, takes every case of its select that stays ready, and
\* a Publish whose send can proceed returns
FairSpecCalls ==
  /\ Spec
  /\ WF_vars(HubBroadcast) /\ WF_vars(\E c \in AllChans : HubOffer(c)) /\ WF_vars(PublishReturn)
  /\ \A c \in Chans : WF_vars(HubRegister(c))
  /\ \A c \in AllChans : WF_vars(HubUnregister(c))

\* fan-out: a publisher, the running hub actor and subscribers that stay subscribed,
\* each of which reads when it likes or never
NextFanout ==
  \/ \E c \in Chans, size \in BufArgs : SubscribeCall(c, size)
  \/ \E c \in Chans : HubRegister(c)
  \/ HubBroadcast
  \/ \E c \in AllChans : HubOffer(c)
  \/ PublishCall
  \/ PublishReturn
  \/ \E c \in Chans : SubRead(c)

SpecFanout == Init /\ [][NextFanout]_vars

\* the burst of part_000:12-59: subscribers join, a publisher publishes, the first
\* subscriber reads and the others never do; the hub may be cancelled at any moment
NextBurst ==
  \/ Cancel
  \/ HubCancel
  \/ \E c \in Chans, size \in BufArgs : SubscribeCall(c, size)
  \/ \E c \in Chans : HubRegister(c)
  \/ HubBroadcast
  \/ \E c \in AllChans : HubOffer(c)
  \/ PublishCall
  \/ PublishReturn
  \/ SubRead(1)

SpecBurst == Init /\ [][NextBurst]_vars

\* the hub actor takes a ready broadcast case and goes on with the range loop it has
\* begun, and a send proceeds once the buffer has room
FairSpecBurst ==
  /\ SpecBurst
  /\ WF_vars(HubBroadcast) /\ WF_vars(\E c \in AllChans : HubOffer(c)) /\ WF_vars(PublishReturn)

\* joining: subscribers with the default buffer come and go while a publisher
\* publishes and nobody reads
NextJoin ==
  \/ Cancel
  \/ HubCancel
  \/ \E c \in Chans : SubscribeCall(c, 0)
  \/ \E c \in Chans : HubRegister(c)
  \/ \E c \in Chans : UnsubscribeCall(c)
  \/ \E c \in Chans : HubUnregister(c)
  \/ HubBroadcast
  \/ \E c \in AllChans : HubOffer(c)
  \/ PublishCall
  \/ PublishReturn

SpecJoin == Init /\ [][NextJoin]_vars

\* subscription lifecycle: Subscribe, Unsubscribe and cancellation against the hub actor
NextLifecycle ==
  \/ Cancel
  \/ HubCancel
  \/ \E c \in Chans, size \in BufArgs : SubscribeCall(c, size)
  \/ \E c \in Chans : HubRegister(c)
  \/ \E c \in AllChans : UnsubscribeCall(c)
  \/ \E c \in AllChans : HubUnregister(c)

SpecLifecycle == Init /\ [][NextLifecycle]_vars

\* ------------------------------------------------------------- hub properties
\* packets that entered channel c, in order: those already read, then those still queued
Delivered(c) == received[c] \o chQueue[c]

\* packets the hub offered to c while c's queue had room
RECURSIVE OfferedWithRoom(_)
OfferedWithRoom(log) ==
  IF log = <<>> THEN <<>>
  ELSE IF Head(log).room THEN <<Head(log).item>> \o OfferedWithRoom(Tail(log))
  ELSE OfferedWithRoom(Tail(log))

Dropped(c) == {i \in 1..Len(offerLog[c]) : ~offerLog[c][i].room}

\* C1: while the hub actor runs, a Publish call returns whatever the
\* subscribers do: a caller inside Publish eventually leaves it, or the hub has stopped.
C1_PublishReturns == (pubPc = "publish") ~> (pubPc = "idle" \/ hubPc = "done")

C1_Witness ==
  /\ hubPc = "run"
  /\ pubNext > MaxPublish
  /\ \E c \in clients : /\ received[c] = <<>>
                        /\ Len(chQueue[c]) = chCap[c]
                        /\ Dropped(c) # {}

\* C2: a subscriber's channel holds exactly the packets offered to it
\* while its queue had room, each once; a full queue drops for that subscriber only;
\* a subscriber that never reads holds at most its capacity.
C2_DeliveredIffRoom ==
  \A c \in Chans :
    /\ Delivered(c) = OfferedWithRoom(offerLog[c])
    /\ Dropped(c) = {} => Len(Delivered(c)) = Len(offerLog[c])
    /\ received[c] = <<>> => Len(Delivered(c)) <= chCap[c]

C2_Witness ==
  \E c, d \in clients :
    /\ Len(offerLog[c]) = MaxPublish /\ Dropped(c) = {} /\ Len(Delivered(c)) = MaxPublish
    /\ Len(offerLog[d]) = MaxPublish /\ Dropped(d) # {} /\ received[d] = <<>>
    /\ Len(chQueue[d]) = chCap[d]

\* C3: what a subscriber receives is a subsequence of the packets accepted
\* by Publish, in publish order, nothing reordered or duplicated.
C3_SubsequenceOfPublished ==
  \A c \in Chans : IsSubseq(Delivered(c), published)

C3_Witness ==
  \E c \in Chans :
    /\ Len(received[c]) >= 2
    /\ Dropped(c) # {}
    /\ \E i \in Dropped(c) : i > 1 /\ i < Len(offerLog[c])

\* C36: every call of Subscribe, Unsubscribe and Publish returns, also when it is
\* made while or after the hub actor handles the cancellation.
C36_CallsAlwaysReturn ==
  /\ (pubPc = "publish") ~> (pubPc = "idle")
  /\ \A c \in Chans : (subState[c] = "registering") ~> (subState[c] = "subscribed")
  /\ \A c \in AllChans : (unregPending[c] > 0) ~> (unregPending[c] = 0)

\* Subscribe has returned channel c and no Unsubscribe of c has reached the hub
Subscribed(c) == subState[c] = "subscribed" /\ unregSeen[c] = 0

\* C37: once Subscribe has returned a channel, the channel is in the hub's client set,
\* and every packet the hub takes from the broadcast queue from then on, which
\* includes every packet passed to Publish afterwards, is offered to that channel: the
\* range loop that begins with the receive has the channel to visit, and the channel
\* leaves the loop only by the offer of the packet in hand.
C37_OfferedOnceSubscribed ==
  /\ [](\A c \in Chans : Subscribed(c) => c \in clients)
  /\ [][\A c \in Chans :
          /\ (Subscribed(c) /\ Len(broadcast') < Len(broadcast)) =>
               c \in hubTodo' /\ hubPkt' = <<Head(broadcast)>>
          /\ (c \in hubTodo /\ c \notin hubTodo') =>
               /\ Len(offerLog'[c]) = Len(offerLog[c]) + 1
               /\ offerLog'[c][Len(offerLog'[c])].item = hubPkt[1]
          /\ (c \in hubTodo /\ c \in hubTodo') => hubPkt' = hubPkt]_vars

\* a subscriber that joined after the first packet had been handled was offered every
\* later packet and no earlier one
C37_Witness ==
  \E c \in Chans :
    /\ Subscribed(c)
    /\ pubNext > MaxPublish /\ broadcast = <<>>
    /\ Len(offerLog[c]) = MaxPublish - 1
    /\ \A i \in 1..Len(offerLog[c]) : offerLog[c][i].item = i + 1

\* C4: no channel is closed twice, whatever Subscribe, Unsubscribe (repeated, or
\* of an unknown channel) and cancellation do; once the hub has handled cancellation
\* every channel still registered is closed.
C4_ClosedAtMostOnce ==
  /\ \A c \in AllChans : chCloses[c] <= 1
  /\ hubPc = "done" => \A c \in clients : chCloses[c] = 1

C4_Witness ==
  /\ hubPc = "done"
  /\ \E c \in Chans : c \in clients /\ chCloses[c] = 1
  /\ \E d \in Chans : d \notin clients /\ unregSeen[d] = 2 /\ chCloses[d] = 1


\* ------------------------------------------------------------- rat sync
\* packets of a configuration file that are followed
MaxFilePackets == 2

\* consecutive runs of SyncPackets over the same sources
MaxSyncs == 2

\* config.go PacketDef.Foxglove, a map[string]any: nil, or its key/value pairs
NilMap == [isNil |-> TRUE, kv |-> {}]

MapOf(pairs) == [isNil |-> FALSE, kv |-> pairs]

\* sync.go:199-201  syncDefaultTopic
syncDefaultTopic(structName) ==
  "/rat/" \o StringOf([i \in 1..Len(structName) |-> LowerOf(structName[i])])

\* ratitude_test.go:104-110  the struct RatSample tagged @rat:id=0x01, type=plot
RatSample ==
  [ID |-> 1, StructName |-> <<"R", "a", "t", "S", "a", "m", "p", "l", "e">>,
   Type |-> "plot", Packed |-> FALSE, ByteSize |-> 8, Source |-> "main.c",
   Fields |-> <<[Name |-> "value", CType |-> "int32_t", Offset |-> 0, Size |-> 4],
                [Name |-> "tick_ms", CType |-> "uint32_t", Offset |-> 4, Size |-> 4]>>]

\* rat_gen_test.go:149-154  a second tagged struct, with another id
NewPacket ==
  [ID |-> 2, StructName |-> <<"N", "e", "w", "P", "a", "c", "k", "e", "t">>,
   Type |-> "plot", Packed |-> FALSE, ByteSize |-> 4, Source |-> "main.h",
   Fields |-> <<[Name |-> "value", CType |-> "int32_t", Offset |-> 0, Size |-> 4]>>]

\* ratitude_test.go:73-86  the packet the file holds under id 0x01 before the sync
OldName ==
  [ID |-> 1, StructName |-> <<"O", "l", "d", "N", "a", "m", "e">>,
   Type |-> "plot", Packed |-> TRUE, ByteSize |-> 1, Source |-> "old.c",
   Fields |-> <<[Name |-> "x", CType |-> "uint8_t", Offset |-> 0, Size |-> 1]>>]

\* ratitude_test.go:90-101  a packet of the file that no source declares any more
Stale ==
  [ID |-> 153, StructName |-> <<"S", "t", "a", "l", "e">>,
   Type |-> "json", Packed |-> TRUE, ByteSize |-> 1, Source |-> "",
   Fields |-> <<[Name |-> "y", CType |-> "uint8_t", Offset |-> 0, Size |-> 1]>>]

\* a discovered struct as the PacketDef with the given foxglove map
WithFoxglove(pkt, fox) ==
  [ID |-> pkt.ID, StructName |-> pkt.StructName, Type |-> pkt.Type,
   Packed |-> pkt.Packed, ByteSize |-> pkt.ByteSize, Source |-> pkt.Source,
   Fields |-> pkt.Fields, Foxglove |-> fox]

\* the [[packets]] tables a configuration file can hold: no foxglove key, the empty
\* inline table, a custom topic, or the default topic written by an earlier sync
FilePackets ==
  {WithFoxglove(p, f) :
     p \in {RatSample, NewPacket, OldName, Stale},
     f \in {NilMap, MapOf({}), MapOf({<<"topic", "/custom/topic">>})}}
  \cup {WithFoxglove(p, MapOf({<<"topic", syncDefaultTopic(p.StructName)>>})) :
          p \in {RatSample, NewPacket}}

\* rat_gen_test.go:185-192  a struct of another file tagged with the id of RatSample
SameID ==
  [ID |-> 1, StructName |-> <<"B">>,
   Type |-> "json", Packed |-> FALSE, ByteSize |-> 4, Source |-> "b.c",
   Fields |-> <<[Name |-> "v", CType |-> "uint32_t", Offset |-> 0, Size |-> 4]>>]

\* rat_gen_test.go:251-256  a source file that syncParseTaggedFile rejects
BadSource == [parseError |-> TRUE]

\* what the walk meets in the sources, in its order: tagged structs, and files that do
\* not parse
FoundLists ==
  {<<>>, <<RatSample>>, <<NewPacket>>, <<RatSample, NewPacket>>, <<NewPacket, RatSample>>,
   <<RatSample, SameID>>, <<NewPacket, BadSource>>}

\* sort.Slice(..., ID <) on packets with distinct ids
RECURSIVE SortByID(_)
SortByID(pkts) ==
  IF pkts = <<>> THEN <<>>
  ELSE LET m == CHOOSE i \in 1..Len(pkts) : \A j \in 1..Len(pkts) : pkts[i].ID <= pkts[j].ID
       IN <<pkts[m]>> \o SortByID([i \in 1..(Len(pkts) - 1) |->
                                     IF i < m THEN pkts[i] ELSE pkts[i + 1]])

\* mock.go:381-420  Validate, the checks on the packet list
Validate(pkts) ==
  /\ \A i \in 1..Len(pkts) :
       /\ pkts[i].ID <= 255
       /\ pkts[i].StructName # <<>>
       /\ pkts[i].ByteSize >= 0
       /\ \A k \in 1..Len(pkts[i].Fields) :
            /\ pkts[i].Fields[k].Name # ""
            /\ pkts[i].Fields[k].Size > 0
            /\ pkts[i].Fields[k].Offset >= 0
  /\ \A i, j \in 1..Len(pkts) : i # j => pkts[i].ID # pkts[j].ID

\* mock.go:262,355  toml.Marshal of the packets: Foxglove is tagged omitempty, so
\* a nil map and a map without keys both leave the foxglove key out
TomlMarshal(pkts) ==
  [i \in 1..Len(pkts) |->
     IF pkts[i].Foxglove.kv = {} THEN WithFoxglove(pkts[i], NilMap) ELSE pkts[i]]

\* mock.go:320-343  LoadOrDefault: Default() has no packets; a file is decoded, an
\* absent foxglove key leaving the map nil, and validated
LoadOrDefault(file) ==
  IF ~file.exists THEN [err |-> FALSE, exists |-> FALSE, Packets |-> <<>>]
  ELSE IF ~Validate(file.packets) THEN [err |-> TRUE, exists |-> TRUE, Packets |-> <<>>]
  ELSE [err |-> FALSE, exists |-> TRUE, Packets |-> file.packets]

\* mock.go:345-371  Save: validate, sort by id, marshal, write the file
Save(pkts) ==
  IF ~Validate(pkts) THEN [err |-> TRUE, file |-> [exists |-> FALSE, packets |-> <<>>]]
  ELSE [err |-> FALSE, file |-> [exists |-> TRUE, packets |-> TomlMarshal(SortByID(pkts))]]

\* sync.go:136-147  the walk: a file that does not parse, or a struct whose id an
\* earlier struct has, ends it with an error: [err, found]
RECURSIVE syncWalk(_, _)
syncWalk(sources, found) ==
  IF sources = <<>> THEN [err |-> FALSE, found |-> found]
  ELSE LET pkt == Head(sources) IN
    IF "parseError" \in DOMAIN pkt THEN [err |-> TRUE, found |-> <<>>]
    ELSE IF \E i \in 1..Len(found) : found[i].ID = pkt.ID THEN [err |-> TRUE, found |-> <<>>]
    ELSE syncWalk(Tail(sources), Append(found, pkt))

\* sync.go:89-154  syncDiscoverPackets: the tagged structs sorted by id, or the error of
\* the walk: [err, packets]
syncDiscoverPackets(sources) ==
  LET walked == syncWalk(sources, <<>>)
  IN IF walked.err THEN [err |-> TRUE, packets |-> <<>>]
     ELSE [err |-> FALSE, packets |-> SortByID(walked.found)]

\* sync.go:54-80  syncMergePackets
syncMergePackets(existing, discovered) ==
  SortByID([i \in 1..Len(discovered) |->
    LET olds == {k \in 1..Len(existing) : existing[k].ID = discovered[i].ID}
        old == existing[CHOOSE k \in olds : \A m \in olds : m <= k]
    IN IF olds # {} /\ ~old.Foxglove.isNil
         THEN WithFoxglove(discovered[i], old.Foxglove)
         ELSE WithFoxglove(discovered[i],
                MapOf({<<"topic", syncDefaultTopic(discovered[i].StructName)>>}))])

\* sync.go:82-87  syncSortedPackets
syncSortedPackets(packets) == SortByID(packets)

\* sync.go:24-52  SyncPackets: [err, changed, Packets] and the file afterwards
SyncPackets(file, found) ==
  LET cfg == LoadOrDefault(file)
      discovered == syncDiscoverPackets(found)
      merged == syncMergePackets(cfg.Packets, discovered.packets)
      oldPackets == syncSortedPackets(cfg.Packets)
      changed == oldPackets # merged
      failed == [err |-> TRUE, changed |-> FALSE, Packets |-> <<>>, file |-> file]
  IN IF cfg.err THEN failed
     ELSE IF discovered.err THEN failed
     ELSE IF ~cfg.exists \/ changed
       THEN LET saved == Save(merged) IN
              IF saved.err THEN failed
              ELSE [err |-> FALSE, changed |-> TRUE, Packets |-> SortByID(merged),
                    file |-> saved.file]
       ELSE [err |-> FALSE, changed |-> FALSE, Packets |-> merged, file |-> file]

\* a configuration file, or none, and the tagged structs of the sources
InitSync ==
  /\ cancelled = FALSE
  /\ HubOff /\ LisOff /\ PipeOff /\ RaceOff /\ BridgeOff /\ FwOff
  /\ fnPc = "idle"
  /\ fnIn \in [file : [exists : {TRUE}, packets : SeqsUpTo(FilePackets, MaxFilePackets)]
                        \cup {[exists |-> FALSE, packets |-> <<>>]},
               found : FoundLists]
  /\ fnOut = [file |-> fnIn.file, runs |-> <<>>]

\* rat_gen_test.go:158  one run of "rat sync" over the file and the unchanged sources
SyncPacketsCall ==
  /\ fnPc = "idle"
  /\ Len(fnOut.runs) < MaxSyncs
  /\ LET r == SyncPackets(fnOut.file, fnIn.found) IN
       fnOut' = [file |-> r.file,
                 runs |-> Append(fnOut.runs, [err |-> r.err, changed |-> r.changed,
                                              Packets |-> r.Packets, before |-> fnOut.file])]
  /\ UNCHANGED <<cancelled, hubVars, lisVars, pipeVars, fnPc, fnIn, raceVars, bridgeVars,
                 fwVars>>

NextSync == SyncPacketsCall

SpecSync == InitSync /\ [][NextSync]_vars


\* C32: a sync leaves exactly the discovered packets in the configuration, each with
\* the foxglove override the file held under its id, and a second sync over the same
\* sources reports changed = false and leaves the configuration as it is.
C32_SyncMatchesSourcesAndIsIdempotent ==
  /\ \A n \in 1..Len(fnOut.runs) :
       LET run == fnOut.runs[n] IN
         ~run.err =>
           /\ Len(run.Packets) = Len(fnIn.found)
           /\ \A i \in 1..Len(fnIn.found) :
                \E k \in 1..Len(run.Packets) :
                  /\ WithFoxglove(run.Packets[k], NilMap) = WithFoxglove(fnIn.found[i], NilMap)
                  /\ \A j \in 1..Len(run.before.packets) :
                       (run.before.packets[j].ID = fnIn.found[i].ID
                          /\ ~run.before.packets[j].Foxglove.isNil) =>
                         run.Packets[k].Foxglove = run.before.packets[j].Foxglove
  /\ \A n \in 2..Len(fnOut.runs) :
       (~fnOut.runs[n - 1].err /\ ~fnOut.runs[n].err) =>
         /\ ~fnOut.runs[n].changed
         /\ fnOut.runs[n].Packets = fnOut.runs[n - 1].Packets
         /\ fnOut.file = fnOut.runs[n].before


\* ---------------------------------------------------------------------------------------
\* unsubscribe against a running broadcast: the loop over one client's snapshot of
\* subscription ids, one trySend per step, interleaved with the client's readLoop
\* (the first client subscribes twice and stays, the second subscribes and unsubscribes)
\* ---------------------------------------------------------------------------------------

NextUnsub ==
  \/ \E msg \in {m \in SlowMsgs : m.op = "subscribe"} : ReadLoopMessage(1, msg)
  \/ \E msg \in BridgeMsgs : ReadLoopMessage(2, msg)
  \/ \E c \in ClientIds : WriteLoopTake(c)
  \/ \E c \in ClientIds : WriteLoopWrite(c, TRUE)
  \/ \E kinds \in {{}, {"text"}} : BroadcastPacket(Packet(kinds, TRUE, "none", bcCount + 1))
  \/ PublishJSONToChannel
  \/ \E c \in ClientIds : \E order \in Orders(subIDsForChannel(wsSubs[c], bcChan)) :
       SnapshotSubIDs(c, order)
  \/ OfferFrame

SpecUnsub == InitNoImage /\ [][NextUnsub]_vars

\* C38: once the read loop of a client has processed an unsubscribe for a subscription
\* id (the id is no longer in the client's subscription map), no frame carrying that id
\* is offered to the send queue of that client, also while a broadcast is running.
C38_NoFrameAfterUnsubscribe ==
  [][(bcClient # 0 /\ bcIds # <<>> /\ bcIds' = Tail(bcIds) /\ wsSubs' = wsSubs)
       => Head(bcIds) \in DOMAIN wsSubs[bcClient]]_vars


\* the binary frames written to the connection of c, then the one its write loop holds,
\* then those still in its send queue
SentTo(c) == SelectSeq(wsWire[c], LAMBDA f : f.kind = "binary") \o wlMsg[c] \o wsSend[c]

InPublishOrder(frames) ==
  \A i, j \in DOMAIN frames :
    (i < j /\ frames[i].sub = frames[j].sub) =>
      /\ frames[i].payload <= frames[j].payload
      /\ frames[i].chan = frames[j].chan => frames[i].payload < frames[j].payload

\* C39: for each subscription of a client, the frames enter the send queue and are
\* written to the connection in the order in which the broadcast loop took their records
\* from the hub: a frame enters at the back of the queue and carries the record being
\* published, the write loop takes the frame at the front, and along the frames written
\* and queued for one subscription id the record numbers never go down (and go up within
\* one channel), whatever was dropped in between.
C39_FramesInPublishOrder ==
  /\ [](\A c \in ClientIds : InPublishOrder(SentTo(c)))
  /\ [][\A c \in ClientIds :
          wsSend'[c] # wsSend[c] =>
            \/ /\ wsSend[c] # <<>>
               /\ wsSend'[c] = Tail(wsSend[c])
               /\ wlMsg[c] = <<>> /\ wlMsg'[c] = <<Head(wsSend[c])>>
               /\ wsWire'[c] = wsWire[c]
            \/ /\ Len(wsSend'[c]) = Len(wsSend[c]) + 1
               /\ SubSeq(wsSend'[c], 1, Len(wsSend[c])) = wsSend[c]
               /\ wsSend'[c][Len(wsSend'[c])].payload = bcCount
               /\ wsWire'[c] = wsWire[c]]_vars
  /\ [][\A c \in ClientIds :
          wsWire'[c] # wsWire[c] =>
            /\ wlMsg[c] # <<>> /\ wlMsg'[c] = <<>>
            /\ wsWire'[c] = Append(wsWire[c], Head(wlMsg[c]))
            /\ wsSend'[c] = wsSend[c]]_vars

\* the second client has been sent the frames of two records for its subscription 1: the
\* first is written, the second is written or still queued
C39_Witness ==
  /\ \E i, j \in DOMAIN SentTo(2) :
       /\ i < j /\ i <= Len(SentTo(2)) - Len(wsSend[2]) - Len(wlMsg[2])
       /\ SentTo(2)[i].sub = 1 /\ SentTo(2)[j].sub = 1
       /\ SentTo(2)[i].payload = 1 /\ SentTo(2)[j].payload = 2
  /\ bcCount = 2


\* ---------------------------------------------------------------------------------------
\* NewServer: the channel ids of the configuration, uint64 values as four 16-bit limbs
\* ---------------------------------------------------------------------------------------

MaxCfgId == 2

\* the largest uint64
MaxUint64Value == <<Limb - 1, Limb - 1, Limb - 1, Limb - 1>>

\* the ids a configuration may hold: 0 (unset), small ids, and the two largest
CfgIds ==
  {IntOf(n) : n \in 0..MaxCfgId} \cup {MaxUint64Value, IntAdd(MaxUint64Value, IntMinus(IntOf(1)))}

\* a > b on uint64
UintGreater(a, b) ==
  \/ a[4] > b[4]
  \/ a[4] = b[4] /\ a[3] > b[3]
  \/ a[4] = b[4] /\ a[3] = b[3] /\ a[2] > b[2]
  \/ a[4] = b[4] /\ a[3] = b[3] /\ a[2] = b[2] /\ a[1] > b[1]

\* jlink_rtt_server.sh:932-937
maxUint64(a, b) == IF UintGreater(a, b) THEN a ELSE b

\* part_015:234-281  DefaultConfig: the channel ids
DefaultConfig ==
  [ChannelID |-> IntOf(ChannelID), MarkerChannelID |-> IntOf(MarkerChannelID),
   TransformChannelID |-> IntOf(TransformChannelID),
   ImageChannelID |-> IntOf(ImageChannelID), LogChannelID |-> IntOf(LogChannelID),
   TempChannelID |-> IntOf(TempChannelID)]

\* jlink_rtt_server.sh:227-229,245-247,263-265,281-283,305-307,326-328  an id of 0 becomes
\* the default id
WithDefaults(cfg) ==
  [f \in DOMAIN cfg |-> IF cfg[f] = IntOf(0) THEN DefaultConfig[f] ELSE cfg[f]]

RECURSIVE MaxBefore(_, _)
\* jlink_rtt_server.sh:354,357,360,363  maxUint64 nested over the ids before
MaxBefore(cfg, before) ==
  IF Len(before) = 1 THEN cfg[before[1]]
  ELSE maxUint64(cfg[before[Len(before)]], MaxBefore(cfg, SubSeq(before, 1, Len(before) - 1)))

\* jlink_rtt_server.sh:350-364  one if statement: an id equal to one of those before it
\* becomes the largest of them plus one, in uint64 arithmetic
Renumber(cfg, f, before) ==
  IF \E k \in DOMAIN before : cfg[f] = cfg[before[k]]
    THEN [cfg EXCEPT ![f] = IntAdd(MaxBefore(cfg, before), IntOf(1))]
    ELSE cfg

\* jlink_rtt_server.sh:216-364  NewServer: the defaults, then the if statements in order,
\* each on the configuration the one before left
NewServer(cfg) ==
  LET s0 == {WithDefaults(cfg)}
      s1 == {Renumber(c, "MarkerChannelID", <<"ChannelID">>) : c \in s0}
      s2 == {Renumber(c, "TransformChannelID", <<"ChannelID", "MarkerChannelID">>) : c \in s1}
      s3 == {Renumber(c, "ImageChannelID",
                      <<"ChannelID", "MarkerChannelID", "TransformChannelID">>) : c \in s2}
      s4 == {Renumber(c, "LogChannelID",
                      <<"ChannelID", "MarkerChannelID", "TransformChannelID",
                        "ImageChannelID">>) : c \in s3}
      s5 == {Renumber(c, "TempChannelID",
                      <<"ChannelID", "MarkerChannelID", "TransformChannelID",
                        "ImageChannelID", "LogChannelID">>) : c \in s4}
  IN CHOOSE c \in s5 : TRUE

InitNewServer ==
  /\ cancelled = FALSE
  /\ HubOff /\ LisOff /\ PipeOff /\ RaceOff /\ BridgeOff /\ FwOff
  /\ fnPc = "idle"
  /\ fnIn = <<>>
  /\ fnOut = <<>>

\* main.go:205  server := foxglove.NewServer(cfg, hub, textID, quatID)
NewServerCall(cfg) ==
  /\ fnPc = "idle"
  /\ fnIn' = [fn |-> "NewServer", cfg |-> cfg]
  /\ fnOut' = NewServer(cfg)
  /\ fnPc' = "done"
  /\ UNCHANGED <<cancelled, hubVars, lisVars, pipeVars, raceVars, bridgeVars, fwVars>>

NextNewServer ==
  \E cfg \in [DOMAIN DefaultConfig -> CfgIds] : NewServerCall(cfg)

SpecNewServer == InitNewServer /\ [][NextNewServer]_vars

\* C40: after NewServer the six channel ids (packet, marker, transform, image, log,
\* temperature) are pairwise distinct, for every combination of configured ids, equal
\* ids and ids at the top of the uint64 range included.
C40_ChannelIdsPairwiseDistinct ==
  fnPc = "done" =>
    \A f, g \in DOMAIN fnOut : f # g => fnOut[f] # fnOut[g]

====
